---- MODULE Spec2Model ----
(***************************************************************************)
(* Model of the scan backend's decision logic:                             *)
(*   - services/cve_service.py   strict_match_cve_to_evidence              *)
(*   - services/target_normalizer.py   normalize_target and its helpers    *)
(*   - services/cve_service.py   fetch_cves_for_service and its filters    *)
(*   - services/scan_service.py   perform_network_scan                     *)
(*   - services/service_probe.py   probe_http_service                       *)
(*   - services/banner_utils.py   extract_service_info                      *)
(* Python strings are sequences of one-character strings, so that          *)
(* lower-casing, substring tests and the regular expressions of the source *)
(* are computed the way the source computes them.                          *)
(***************************************************************************)
EXTENDS Integers, Sequences, FiniteSets, TLC

VARIABLES cve, service_info, evidence, match_pc, decision,
          user_input, target_pc, target_result, max_hosts, target_safety,
          fetch_pc, fetch_args, nvd_queries, nvd_answer, fetch_log, fetch_result, supabase, store,
          raw_cves, upserts,
          scan_pc, follow_up, scanned, scan_host, host_info, results, probes, lookups, scan_return,
          scan_args, nmap_calls, host_data,
          call_pc, call, ret

match_vars == <<cve, service_info, evidence, match_pc, decision>>
target_vars == <<user_input, target_pc, target_result, max_hosts, target_safety>>
fetch_vars == <<fetch_pc, fetch_args, nvd_queries, nvd_answer, fetch_log, fetch_result, supabase, store,
                raw_cves, upserts>>
scan_vars == <<scan_pc, follow_up, scanned, scan_host, host_info, results, probes, lookups, scan_return,
               scan_args, nmap_calls, host_data>>
call_vars == <<call_pc, call, ret>>
vars == <<cve, service_info, evidence, match_pc, decision,
          user_input, target_pc, target_result, max_hosts, target_safety,
          fetch_pc, fetch_args, nvd_queries, nvd_answer, fetch_log, fetch_result, supabase, store,
          raw_cves, upserts,
          scan_pc, follow_up, scanned, scan_host, host_info, results, probes, lookups, scan_return,
          scan_args, nmap_calls, host_data,
          call_pc, call, ret>>

(***************************************************************************)
(* Bounds of the model.                                                    *)
(***************************************************************************)
\* How many optional fields of (cve, service_info, evidence) a run fills in.
MaxPopulated == 2
\* How many labels a generated hostname has at most.
MaxLabels == 3

(***************************************************************************)
(* Python str primitives.                                                  *)
(***************************************************************************)
EmptyStr == <<>>

UpperSeq == <<"A","B","C","D","E","F","G","H","I","J","K","L","M","N","O","P","Q","R","S","T","U","V","W","X","Y","Z">>
LowerSeq == <<"a","b","c","d","e","f","g","h","i","j","k","l","m","n","o","p","q","r","s","t","u","v","w","x","y","z">>
UpperLetters == {UpperSeq[i] : i \in 1..26}
LowerLetters == {LowerSeq[i] : i \in 1..26}
Digits == {"0","1","2","3","4","5","6","7","8","9"}
\* \w of the re module, on the ASCII characters the model uses
WordChars == UpperLetters \cup LowerLetters \cup Digits \cup {"_"}
AlnumChars == UpperLetters \cup LowerLetters \cup Digits
Whitespace == {" "}

ToLowerChar == [c \in UpperLetters |-> LowerSeq[CHOOSE i \in 1..26 : UpperSeq[i] = c]]

\* str.lower()
Lower(s) == [i \in 1..Len(s) |-> IF s[i] \in UpperLetters THEN ToLowerChar[s[i]] ELSE s[i]]

\* Python's  sub in s  on strings (the empty string is in every string)
Contains(s, sub) ==
    \E i \in 1..(Len(s) - Len(sub) + 1) : SubSeq(s, i, i + Len(sub) - 1) = sub

\* any(kw in s for kw in keywords)
AnyIn(keywords, s) == \E k \in 1..Len(keywords) : Contains(s, keywords[k])

\* first index >= i of s holding a character outside cls (Len(s)+1 if none)
RunStop(s, i, cls) ==
    CHOOSE j \in i..(Len(s) + 1) :
        /\ (j = Len(s) + 1 \/ s[j] \notin cls)
        /\ \A k \in i..(j - 1) : s[k] \in cls

\* str.strip() on the whitespace the model uses
Strip(s) ==
    IF \A i \in 1..Len(s) : s[i] \in Whitespace THEN EmptyStr
    ELSE LET a == CHOOSE i \in 1..Len(s) :
                      s[i] \notin Whitespace /\ \A k \in 1..(i - 1) : s[k] \in Whitespace
             b == CHOOSE i \in 1..Len(s) :
                      s[i] \notin Whitespace /\ \A k \in (i + 1)..Len(s) : s[k] \in Whitespace
         IN SubSeq(s, a, b)

(***************************************************************************)
(* services/cve_service.py : strict_match_cve_to_evidence                  *)
(***************************************************************************)
\* character class of  [\w\-\./]
PathChars == WordChars \cup {"-", ".", "/"}

\* re.findall(r"(/[\w\-\./]+)", s): leftmost, greedy, non-overlapping
RECURSIVE FindPathsFrom(_, _)
FindPathsFrom(s, i) ==
    IF i > Len(s) THEN <<>>
    ELSE IF s[i] = "/" /\ i + 1 <= Len(s) /\ s[i + 1] \in PathChars
         THEN LET e == RunStop(s, i + 1, PathChars)
              IN <<SubSeq(s, i, e - 1)>> \o FindPathsFrom(s, e)
         ELSE FindPathsFrom(s, i + 1)

endpoint_paths(title_desc) == FindPathsFrom(title_desc, 1)

\* the (?:\.\d+)* part and the closing \b of the version pattern; e is the
\* index after the last digit run read, prev the index after the run before
\* it (0 if there is none to fall back to)
RECURSIVE ExtendVersion(_, _, _)
ExtendVersion(s, e, prev) ==
    IF e + 1 <= Len(s) /\ s[e] = "." /\ s[e + 1] \in Digits
    THEN ExtendVersion(s, RunStop(s, e + 1, Digits), e)
    ELSE IF e = Len(s) + 1 \/ s[e] \notin WordChars THEN e
         ELSE IF prev > 0 THEN prev ELSE 0

\* index after the match of \b\d+\.\d+(?:\.\d+)*\b that starts at i, 0 if none
VersionEnd(s, i) ==
    IF s[i] \in Digits /\ (i = 1 \/ s[i - 1] \notin WordChars)
    THEN LET e1 == RunStop(s, i, Digits)
         IN IF e1 + 1 <= Len(s) /\ s[e1] = "." /\ s[e1 + 1] \in Digits
            THEN ExtendVersion(s, RunStop(s, e1 + 1, Digits), 0)
            ELSE 0
    ELSE 0

RECURSIVE FindVersionsFrom(_, _)
FindVersionsFrom(s, i) ==
    IF i > Len(s) THEN <<>>
    ELSE LET e == VersionEnd(s, i)
         IN IF e > 0 THEN <<SubSeq(s, i, e - 1)>> \o FindVersionsFrom(s, e)
            ELSE FindVersionsFrom(s, i + 1)

\* re.findall(r"\b(\d+\.\d+(?:\.\d+)*)\b", s)
cve_versions(title_desc) == FindVersionsFrom(title_desc, 1)

\* the length window of  1 < len(path) < 80
PathMaxLen == 80
\* the threshold of  fingerprint_conf >= 80
ConfThreshold == 80

\* router_vendors, in the insertion order the loop walks it
VendorOrder == <<"tenda", "fritz", "tp-link", "d-link", "netgear", "asus", "cisco", "zyxel">>
router_vendors ==
    [v \in {VendorOrder[i] : i \in 1..Len(VendorOrder)} |->
        CASE v = "tenda"   -> <<<<"t","e","n","d","a">>, <<"a","c","1","8">>, <<"a","c","1","5">>>>
          [] v = "fritz"   -> <<<<"f","r","i","t","z">>, <<"a","v","m">>, <<"f","r","i","t","z","!","b","o","x">>>>
          [] v = "tp-link" -> <<<<"t","p","-","l","i","n","k">>, <<"t","p","l","i","n","k">>>>
          [] v = "d-link"  -> <<<<"d","-","l","i","n","k">>, <<"d","l","i","n","k">>>>
          [] v = "netgear" -> <<<<"n","e","t","g","e","a","r">>>>
          [] v = "asus"    -> <<<<"a","s","u","s"," ","r","o","u","t","e","r">>>>
          [] v = "cisco"   -> <<<<"c","i","s","c","o">>>>
          [] v = "zyxel"   -> <<<<"z","y","x","e","l">>>>]

common_products ==
    <<<<"a","p","a","c","h","e">>, <<"n","g","i","n","x">>, <<"o","p","e","n","s","s","h">>, <<"b","i","n","d">>, <<"p","o","s","t","f","i","x">>, <<"m","y","s","q","l">>,
      <<"p","o","s","t","g","r","e","s","q","l">>, <<"m","i","n","i","u","p","n","p","d">>, <<"l","i","b","u","p","n","p">>, <<"s","a","m","b","a">>, <<"v","s","f","t","p","d">>>>

\* a variant that forgets .lower()
title_desc_not_lowered(c) == c.title \o <<" ">> \o c.description

\* title_desc = (cve.get("title", "") + " " + cve.get("description", "")).lower()
title_desc_of(c) == Lower(c.title \o <<" ">> \o c.description)

\* rule 1: some extracted path of acceptable length is an element of
\* evidence["reachable_paths"]
EndpointReachable(title_desc, ev) ==
    LET paths == endpoint_paths(title_desc)
    IN \E k \in 1..Len(paths) :
          /\ 1 < Len(paths[k]) /\ Len(paths[k]) < PathMaxLen
          /\ Contains(paths[k], <<"/">>)
          /\ ev.reachable_paths # {}
          /\ paths[k] \in ev.reachable_paths

\* a variant whose loop has no break: the last vendor named wins
cve_vendor_last_named(title_desc) ==
    LET hits == {i \in 1..Len(VendorOrder) : AnyIn(router_vendors[VendorOrder[i]], title_desc)}
    IN IF hits = {} THEN "none"
       ELSE VendorOrder[CHOOSE i \in hits : \A j \in hits : i >= j]

\* the for/break loop over router_vendors: the first vendor, in table order,
\* one of whose keywords is in the text; "none" stands for None
cve_vendor_of(title_desc) ==
    LET hits == {i \in 1..Len(VendorOrder) : AnyIn(router_vendors[VendorOrder[i]], title_desc)}
    IN IF hits = {} THEN "none"
       ELSE VendorOrder[CHOOSE i \in hits : \A j \in hits : i <= j]

\* a variant that compares the whole text with the product name (== for in)
cve_product_exact(title_desc) ==
    IF \E i \in 1..Len(common_products) : common_products[i] = title_desc
    THEN title_desc ELSE EmptyStr

\* the for/break loop over common_products; EmptyStr stands for None
cve_product_of(title_desc) ==
    LET hits == {i \in 1..Len(common_products) : Contains(title_desc, common_products[i])}
    IN IF hits = {} THEN EmptyStr
       ELSE common_products[CHOOSE i \in hits : \A j \in hits : i <= j]

\* rule 3: cve_versions and version, and some cve_ver in version
VersionLiteralMatch(title_desc, version) ==
    LET vers == cve_versions(title_desc)
    IN /\ Len(vers) > 0
       /\ version # EmptyStr
       /\ \E k \in 1..Len(vers) : Contains(version, vers[k])

\* a variant of rule 4's first test with the operands of  in  swapped
ProductInBannerSwapped(cve_product, banner, product) ==
    Contains(cve_product, banner) \/ Contains(cve_product, product)

\* rule 4, first test: cve_product in banner or cve_product in product
ProductInBanner(cve_product, banner, product) ==
    Contains(banner, cve_product) \/ Contains(product, cve_product)

\* a variant of rule 5 that drops the confidence test
GenericWithoutConfidence(si, title_desc) ==
    Contains(title_desc, Lower(si.service_name))

\* rule 5: fingerprint_conf >= 80 and svc in title_desc
HighConfidenceGeneric(si, title_desc) ==
    /\ si.fingerprint_confidence >= ConfThreshold
    /\ Contains(title_desc, Lower(si.service_name))

\* The decision procedure, with the return statement taken as the reason.
MatchDecision(c, si, ev) ==
    LET title_desc == title_desc_of(c)
        banner == Lower(si.banner)
        version == Lower(si.version)
        product == Lower(si.product)
        cve_vendor == cve_vendor_of(title_desc)
        cve_product == cve_product_of(title_desc)
    IN IF EndpointReachable(title_desc, ev)
       THEN [result |-> TRUE, reason |-> "endpoint"]
       ELSE IF cve_vendor # "none"
       THEN LET vendor_keywords == router_vendors[cve_vendor]
            IN IF AnyIn(vendor_keywords, banner)
               THEN [result |-> TRUE, reason |-> "vendor_banner"]
               ELSE IF AnyIn(vendor_keywords, Lower(ev.server_header))
               THEN [result |-> TRUE, reason |-> "vendor_server_header"]
               ELSE IF AnyIn(vendor_keywords, Lower(ev.html_title))
               THEN [result |-> TRUE, reason |-> "vendor_html_title"]
               ELSE IF \E k \in 1..Len(vendor_keywords) : vendor_keywords[k] \in ev.body_tokens
               THEN [result |-> TRUE, reason |-> "vendor_body_tokens"]
               ELSE IF \/ AnyIn(vendor_keywords, Lower(ev.upnp_model))
                       \/ AnyIn(vendor_keywords, Lower(ev.upnp_manufacturer))
               THEN [result |-> TRUE, reason |-> "vendor_upnp"]
               ELSE [result |-> FALSE, reason |-> "vendor_no_evidence"]
       ELSE IF VersionLiteralMatch(title_desc, version)
       THEN [result |-> TRUE, reason |-> "version"]
       ELSE IF cve_product # EmptyStr
       THEN IF ProductInBanner(cve_product, banner, product)
            THEN [result |-> TRUE, reason |-> "product_banner"]
            ELSE IF Contains(Lower(ev.server_header), cve_product)
            THEN [result |-> TRUE, reason |-> "product_server_header"]
            ELSE [result |-> FALSE, reason |-> "product_absent"]
       ELSE IF HighConfidenceGeneric(si, title_desc)
       THEN [result |-> TRUE, reason |-> "generic"]
       ELSE [result |-> FALSE, reason |-> "default"]

strict_match_cve_to_evidence(c, si, ev) == MatchDecision(c, si, ev).result

\* the numbered rule (1..6 of the decision procedure) a reason belongs to
RuleOf(reason) ==
    CASE reason = "endpoint" -> 1
      [] reason \in {"vendor_banner", "vendor_server_header", "vendor_html_title",
                     "vendor_body_tokens", "vendor_upnp", "vendor_no_evidence"} -> 2
      [] reason = "version" -> 3
      [] reason \in {"product_banner", "product_server_header", "product_absent"} -> 4
      [] reason = "generic" -> 5
      [] OTHER -> 6

(***************************************************************************)
(* The inputs a caller hands to strict_match_cve_to_evidence.              *)
(***************************************************************************)
\* title and description texts of candidate CVE records
Phrases ==
    { <<"T","e","n","d","a"," ","A","C","1","8"," ","U","P","n","P">>,
      <<"C","i","s","c","o"," ","I","O","S">>,
      <<"A","p","a","c","h","e"," ","H","T","T","P"," ","S","e","r","v","e","r"," ","2",".","4",".","5","8"," ","v","u","l","n","e","r","a","b","i","l","i","t","y">>,
      <<"n","g","i","n","x">>,
      <<"i","n"," ","/","g","o","f","o","r","m","/","S","e","t","U","p","n","p","C","f","g">>,
      <<"i","n"," ","/","c","g","i","-","b","i","n","/","l","u","c","i">>,
      <<"h","t","t","p"," ","1",".","9"," ","o","v","e","r","f","l","o","w">>,
      <<"h","t","t","p"," ","f","l","a","w">>,
      <<"m","i","n","i","u","p","n","p","d"," ","1",".","9"," ","b","u","f","f","e","r"," ","o","v","e","r","f","l","o","w">> }

ServiceNames == { <<"h","t","t","p">>, <<"u","p","n","p">> }
Banners == { <<"T","e","n","d","a"," ","A","C","1","8"," ","U","P","n","P">>, <<"A","p","a","c","h","e","/","2",".","4",".","5","8"," ","(","U","b","u","n","t","u",")">>, <<"m","i","n","i","u","p","n","p","d","/","1",".","9">>,
             <<"m","i","n","i","u","p","n","p","d","/","2",".","0">> }
Versions == { <<"2",".","4",".","5","8">>, <<"2",".","0">> }
Products == { <<"A","p","a","c","h","e">> }
Confidences == { 79, 80 }
ServerHeaders == { <<"A","p","a","c","h","e","/","2",".","4",".","5","8"," ","(","U","b","u","n","t","u",")">>, <<"C","i","s","c","o">> }
HtmlTitles == { <<"T","e","n","d","a"," ","W","e","b"," ","M","a","s","t","e","r">> }
BodyTokenLists == { {<<"t","e","n","d","a">>}, {<<"a","c","1","8">>} }
\* the first path is one the evidence collector probes (banner_utils.py:120)
ReachablePathLists == { {<<"/","g","o","f","o","r","m","/","S","e","t","U","p","n","p","C","f","g">>}, {<<"/","c","g","i","-","b","i","n","/","l","u","c","i">>} }
UpnpModels == { <<"a","c","1","8">> }
UpnpManufacturers == { <<"c","i","s","c","o">> }

NoEvidence ==
    [server_header |-> EmptyStr, html_title |-> EmptyStr, body_tokens |-> {},
     reachable_paths |-> {}, upnp_model |-> EmptyStr, upnp_manufacturer |-> EmptyStr]

Pending == [result |-> FALSE, reason |-> "pending"]

\* number of optional fields filled in so far
Populated ==
    Cardinality({f \in {"description", "banner", "version", "product", "conf",
                        "server_header", "html_title", "body_tokens",
                        "reachable_paths", "upnp_model", "upnp_manufacturer"} :
        CASE f = "description" -> cve.description # EmptyStr
          [] f = "banner" -> service_info.banner # EmptyStr
          [] f = "version" -> service_info.version # EmptyStr
          [] f = "product" -> service_info.product # EmptyStr
          [] f = "conf" -> service_info.fingerprint_confidence # 0
          [] f = "server_header" -> evidence.server_header # EmptyStr
          [] f = "html_title" -> evidence.html_title # EmptyStr
          [] f = "body_tokens" -> evidence.body_tokens # {}
          [] f = "reachable_paths" -> evidence.reachable_paths # {}
          [] f = "upnp_model" -> evidence.upnp_model # EmptyStr
          [] f = "upnp_manufacturer" -> evidence.upnp_manufacturer # EmptyStr})

CanFill == match_pc = "build" /\ Populated < MaxPopulated

TargetIdle ==
    /\ user_input = EmptyStr
    /\ target_pc = "idle"
    /\ target_result = [raised |-> FALSE, error |-> "none"]
    /\ max_hosts = 0
    /\ target_safety = [is_safe |-> FALSE, has_message |-> FALSE, message |-> EmptyStr]

FetchIdle ==
    /\ fetch_pc = "idle"
    /\ fetch_args = [service_name |-> EmptyStr, version |-> EmptyStr, os_name |-> EmptyStr]
    /\ nvd_queries = <<>>
    /\ fetch_log = <<>>
    /\ nvd_answer = "none"
    /\ fetch_result = [raised |-> FALSE, value |-> <<>>]
    /\ supabase = FALSE
    /\ store = {}
    /\ raw_cves = <<>>
    /\ upserts = <<>>

\* perform_network_scan has not returned
NoReturn ==
    [returned |-> FALSE, raised |-> FALSE, results |-> <<>>, error |-> "none",
     nmap_cmd |-> EmptyStr]

ScanIdle ==
    /\ scan_pc = "idle"
    /\ follow_up = FALSE
    /\ scanned = <<>>
    /\ scan_host = 0
    /\ host_info = [hostnames |-> <<>>]
    /\ results = <<>>
    /\ probes = <<>>
    /\ lookups = <<>>
    /\ scan_return = NoReturn
    /\ scan_args = [ip_address |-> EmptyStr, nmap_args |-> EmptyStr, scan_profile |-> EmptyStr]
    /\ nmap_calls = <<>>
    /\ host_data = [hostnames |-> <<>>]

\* no call of a helper function in progress
CallIdle ==
    /\ call_pc = "idle"
    /\ call = [fn |-> "none"]
    /\ ret = [fn |-> "none"]

InitMatch ==
    /\ cve \in [title : Phrases, description : {EmptyStr}]
    /\ service_info \in [service_name : ServiceNames, banner : {EmptyStr},
                         version : {EmptyStr}, product : {EmptyStr},
                         fingerprint_confidence : {0}]
    /\ evidence = NoEvidence
    /\ match_pc = "build"
    /\ decision = Pending
    /\ TargetIdle
    /\ FetchIdle
    /\ ScanIdle
    /\ CallIdle

SetDescription ==
    /\ CanFill /\ cve.description = EmptyStr
    /\ \E d \in Phrases : cve' = [cve EXCEPT !.description = d]
    /\ UNCHANGED <<service_info, evidence, match_pc, decision, target_vars, fetch_vars, scan_vars, call_vars>>

SetBanner ==
    /\ CanFill /\ service_info.banner = EmptyStr
    /\ \E b \in Banners : service_info' = [service_info EXCEPT !.banner = b]
    /\ UNCHANGED <<cve, evidence, match_pc, decision, target_vars, fetch_vars, scan_vars, call_vars>>

SetVersion ==
    /\ CanFill /\ service_info.version = EmptyStr
    /\ \E v \in Versions : service_info' = [service_info EXCEPT !.version = v]
    /\ UNCHANGED <<cve, evidence, match_pc, decision, target_vars, fetch_vars, scan_vars, call_vars>>

SetProduct ==
    /\ CanFill /\ service_info.product = EmptyStr
    /\ \E p \in Products : service_info' = [service_info EXCEPT !.product = p]
    /\ UNCHANGED <<cve, evidence, match_pc, decision, target_vars, fetch_vars, scan_vars, call_vars>>

SetConfidence ==
    /\ CanFill /\ service_info.fingerprint_confidence = 0
    /\ \E n \in Confidences :
          service_info' = [service_info EXCEPT !.fingerprint_confidence = n]
    /\ UNCHANGED <<cve, evidence, match_pc, decision, target_vars, fetch_vars, scan_vars, call_vars>>

SetServerHeader ==
    /\ CanFill /\ evidence.server_header = EmptyStr
    /\ \E h \in ServerHeaders : evidence' = [evidence EXCEPT !.server_header = h]
    /\ UNCHANGED <<cve, service_info, match_pc, decision, target_vars, fetch_vars, scan_vars, call_vars>>

SetHtmlTitle ==
    /\ CanFill /\ evidence.html_title = EmptyStr
    /\ \E t \in HtmlTitles : evidence' = [evidence EXCEPT !.html_title = t]
    /\ UNCHANGED <<cve, service_info, match_pc, decision, target_vars, fetch_vars, scan_vars, call_vars>>

SetBodyTokens ==
    /\ CanFill /\ evidence.body_tokens = {}
    /\ \E t \in BodyTokenLists : evidence' = [evidence EXCEPT !.body_tokens = t]
    /\ UNCHANGED <<cve, service_info, match_pc, decision, target_vars, fetch_vars, scan_vars, call_vars>>

SetReachablePaths ==
    /\ CanFill /\ evidence.reachable_paths = {}
    /\ \E r \in ReachablePathLists : evidence' = [evidence EXCEPT !.reachable_paths = r]
    /\ UNCHANGED <<cve, service_info, match_pc, decision, target_vars, fetch_vars, scan_vars, call_vars>>

SetUpnpModel ==
    /\ CanFill /\ evidence.upnp_model = EmptyStr
    /\ \E m \in UpnpModels : evidence' = [evidence EXCEPT !.upnp_model = m]
    /\ UNCHANGED <<cve, service_info, match_pc, decision, target_vars, fetch_vars, scan_vars, call_vars>>

SetUpnpManufacturer ==
    /\ CanFill /\ evidence.upnp_manufacturer = EmptyStr
    /\ \E m \in UpnpManufacturers : evidence' = [evidence EXCEPT !.upnp_manufacturer = m]
    /\ UNCHANGED <<cve, service_info, match_pc, decision, target_vars, fetch_vars, scan_vars, call_vars>>

\* a variant that normalises the banner inside the caller's dictionary
arguments_lowered_in_place(c, si, ev) == <<c, [si EXCEPT !.banner = Lower(@)], ev>>

\* the three arguments as a call leaves them: the function reads them with
\* .get() and builds new strings with .lower(); it assigns to no key of theirs
arguments_after_call(c, si, ev) == <<c, si, ev>>

\* the call  strict_match_cve_to_evidence(cve, service_info, evidence)
StrictMatch ==
    /\ match_pc = "build"
    /\ decision' = MatchDecision(cve, service_info, evidence)
    /\ \E after \in { arguments_after_call(cve, service_info, evidence) } :
          /\ cve' = after[1]
          /\ service_info' = after[2]
          /\ evidence' = after[3]
    /\ match_pc' = "done"
    /\ UNCHANGED <<target_vars, fetch_vars, scan_vars, call_vars>>

\* the same call once more, with the dictionaries the first call was given
StrictMatchAgain ==
    /\ match_pc = "done"
    /\ decision' = MatchDecision(cve, service_info, evidence)
    /\ \E after \in { arguments_after_call(cve, service_info, evidence) } :
          /\ cve' = after[1]
          /\ service_info' = after[2]
          /\ evidence' = after[3]
    /\ match_pc' = "again"
    /\ UNCHANGED <<target_vars, fetch_vars, scan_vars, call_vars>>

NextMatch ==
    \/ SetDescription \/ SetBanner \/ SetVersion \/ SetProduct \/ SetConfidence
    \/ SetServerHeader \/ SetHtmlTitle \/ SetBodyTokens \/ SetReachablePaths
    \/ SetUpnpModel \/ SetUpnpManufacturer
    \/ StrictMatch
    \/ StrictMatchAgain

SpecMatch == InitMatch /\ [][NextMatch]_vars


(***************************************************************************)
(* Python str/int helpers used by services/target_normalizer.py            *)
(***************************************************************************)
DigitSeq == <<"0","1","2","3","4","5","6","7","8","9">>
DigitVal(c) == (CHOOSE i \in 1..10 : DigitSeq[i] = c) - 1
HexChars == Digits \cup {"a","b","c","d","e","f","A","B","C","D","E","F"}

\* str.isdigit() on ASCII text
IsDigitStr(s) == Len(s) > 0 /\ \A i \in 1..Len(s) : s[i] \in Digits

\* int(s) for a string of ASCII digits
RECURSIVE StrToInt(_)
StrToInt(s) ==
    IF Len(s) = 0 THEN 0
    ELSE StrToInt(SubSeq(s, 1, Len(s) - 1)) * 10 + DigitVal(s[Len(s)])

\* str(n) for n >= 0
RECURSIVE IntToStr(_)
IntToStr(n) ==
    IF n < 10 THEN <<DigitSeq[n + 1]>>
    ELSE IntToStr(n \div 10) \o <<DigitSeq[(n % 10) + 1]>>

\* s.split(sep) for a one-character separator
RECURSIVE Split(_, _)
Split(s, sep) ==
    IF \A i \in 1..Len(s) : s[i] # sep THEN <<s>>
    ELSE LET k == CHOOSE i \in 1..Len(s) : s[i] = sep /\ \A j \in 1..(i - 1) : s[j] # sep
         IN <<SubSeq(s, 1, k - 1)>> \o Split(SubSeq(s, k + 1, Len(s)), sep)

\* sep.join(parts)
RECURSIVE Join(_, _)
Join(parts, sep) ==
    IF Len(parts) = 0 THEN EmptyStr
    ELSE IF Len(parts) = 1 THEN parts[1]
    ELSE parts[1] \o <<sep>> \o Join(Tail(parts), sep)

HasChar(s, c) == \E i \in 1..Len(s) : s[i] = c
EndsWith(s, suffix) ==
    Len(s) >= Len(suffix) /\ SubSeq(s, Len(s) - Len(suffix) + 1, Len(s)) = suffix

RECURSIVE Pow2(_)
Pow2(n) == IF n = 0 THEN 1 ELSE 2 * Pow2(n - 1)

(***************************************************************************)
(* The ipaddress library, as far as the normalizer uses it.  IPv4 in full; *)
(* IPv6 for literals of the compressed form "::", "::h" and "::a.b.c.d".    *)
(***************************************************************************)
\* IPv4Address._parse_octet: ASCII digits, at most 3, no leading zero, <= 255
ValidOctet(o) ==
    /\ IsDigitStr(o)
    /\ Len(o) <= 3
    /\ (Len(o) > 1 => o[1] # "0")
    /\ StrToInt(o) <= 255

IsIPv4(s) ==
    LET parts == Split(s, ".")
    IN Len(parts) = 4 /\ \A i \in 1..4 : ValidOctet(parts[i])

\* the four octet values of a valid IPv4 literal
OctetsOf(s) == LET parts == Split(s, ".") IN [i \in 1..4 |-> StrToInt(parts[i])]

IsIPv6(s) ==
    /\ Len(s) >= 2 /\ SubSeq(s, 1, 2) = <<":", ":">>
    /\ LET rest == SubSeq(s, 3, Len(s))
       IN \/ Len(rest) = 0
          \/ Len(rest) <= 4 /\ \A i \in 1..Len(rest) : rest[i] \in HexChars
          \/ IsIPv4(rest)

\* ipaddress.ip_address(s): "v4", "v6", or "invalid" for ValueError
ip_address(s) == IF IsIPv4(s) THEN "v4" ELSE IF IsIPv6(s) THEN "v6" ELSE "invalid"

\* octets of the netmask of prefix length p
MaskOctets(p) ==
    [i \in 1..4 |->
        LET bits == IF p - 8 * (i - 1) < 0 THEN 0
                    ELSE IF p - 8 * (i - 1) > 8 THEN 8 ELSE p - 8 * (i - 1)
        IN 256 - Pow2(8 - bits)]

\* IPv4Network._make_netmask on the text after "/": a prefix length in
\* decimal, else a netmask, else a hostmask; -1 for NetmaskValueError
PrefixLenOf(mask) ==
    IF IsDigitStr(mask) /\ Len(mask) <= 3 /\ StrToInt(mask) <= 32
    THEN StrToInt(mask)
    ELSE IF IsIPv4(mask)
    THEN LET o == OctetsOf(mask)
             inv == [i \in 1..4 |-> 255 - o[i]]
         IN IF \E p \in 0..32 : MaskOctets(p) = o
            THEN CHOOSE p \in 0..32 : MaskOctets(p) = o
            ELSE IF \E p \in 0..32 : MaskOctets(p) = inv
            THEN CHOOSE p \in 0..32 : MaskOctets(p) = inv
            ELSE 0 - 1
    ELSE 0 - 1

\* ipaddress.ip_network(s, strict=False) succeeds (IPv4)
IsNetwork(s) ==
    LET parts == Split(s, "/")
    IN Len(parts) = 2 /\ IsIPv4(parts[1]) /\ PrefixLenOf(parts[2]) >= 0

\* str(network): the address with its host bits cleared, "/", the prefix length
NetworkStr(s) ==
    LET parts == Split(s, "/")
        p == PrefixLenOf(parts[2])
        o == OctetsOf(parts[1])
        m == MaskOctets(p)
        net == [i \in 1..4 |-> o[i] - (o[i] % (256 - m[i]))]
    IN Join([i \in 1..4 |-> IntToStr(net[i])], ".") \o <<"/">> \o IntToStr(p)

\* network.num_addresses
NumAddresses(s) == Pow2(32 - PrefixLenOf(Split(s, "/")[2]))

\* int(ip) of a valid IPv4 literal
Ip4Int(s) == LET o == OctetsOf(s) IN ((o[1] * 256 + o[2]) * 256 + o[3]) * 256 + o[4]

HexSeq == <<"0","1","2","3","4","5","6","7","8","9","a","b","c","d","e","f">>
HexVal(c) == (CHOOSE i \in 1..16 : HexSeq[i] = Lower(<<c>>)[1]) - 1
RECURSIVE HexToInt(_)
HexToInt(s) ==
    IF Len(s) = 0 THEN 0
    ELSE HexToInt(SubSeq(s, 1, Len(s) - 1)) * 16 + HexVal(s[Len(s)])

\* int(ip) of a valid literal of either family
IpInt(s) ==
    IF IsIPv4(s) THEN Ip4Int(s)
    ELSE LET rest == SubSeq(s, 3, Len(s))
         IN IF IsIPv4(rest) THEN Ip4Int(rest) ELSE HexToInt(rest)

(***************************************************************************)
(* services/target_normalizer.py                                           *)
(***************************************************************************)
\* thresholds of the size warnings
LargeScanHosts == 1024
MediumScanHosts == 256
\* the hostname length limit
MaxHostnameLen == 253
\* {0,61} of hostname_pattern
LabelMiddleMax == 61

\* a raised ValueError; kind names the raise statement
Raised(kind) ==
    [raised |-> TRUE, error |-> kind, original |-> EmptyStr, normalized |-> EmptyStr,
     hosts_known |-> FALSE, hosts_count |-> 0, target_type |-> "none", warnings |-> <<>>]

\* a returned dictionary; hosts_count None is hosts_known = FALSE
Returned(orig, norm, known, count, type, warns) ==
    [raised |-> FALSE, error |-> "none", original |-> orig, normalized |-> norm,
     hosts_known |-> known, hosts_count |-> count, target_type |-> type,
     warnings |-> warns]

\* a variant whose thresholds are inclusive
SizeWarningsInclusive(hosts_count) ==
    IF hosts_count >= LargeScanHosts
    THEN << <<"L","a","r","g","e"," ","s","c","a","n",":"," ">> \o IntToStr(hosts_count)
              \o <<" ","h","o","s","t","s","."," ","T","h","i","s"," ","m","a","y"," ","t","a","k","e"," ","a"," ","l","o","n","g"," ","t","i","m","e",".">> >>
    ELSE IF hosts_count >= MediumScanHosts
    THEN << <<"M","e","d","i","u","m"," ","s","c","a","n",":"," ">> \o IntToStr(hosts_count) \o <<" ","h","o","s","t","s",".">> >>
    ELSE <<>>

\* the warnings list built from hosts_count in _normalize_cidr and _normalize_range
SizeWarnings(hosts_count) ==
    IF hosts_count > LargeScanHosts
    THEN << <<"L","a","r","g","e"," ","s","c","a","n",":"," ">> \o IntToStr(hosts_count)
              \o <<" ","h","o","s","t","s","."," ","T","h","i","s"," ","m","a","y"," ","t","a","k","e"," ","a"," ","l","o","n","g"," ","t","i","m","e",".">> >>
    ELSE IF hosts_count > MediumScanHosts
    THEN << <<"M","e","d","i","u","m"," ","s","c","a","n",":"," ">> \o IntToStr(hosts_count) \o <<" ","h","o","s","t","s",".">> >>
    ELSE <<>>

_normalize_cidr(cidr_input) ==
    IF IsNetwork(cidr_input)
    THEN LET hosts_count == NumAddresses(cidr_input)
         IN Returned(cidr_input, NetworkStr(cidr_input), TRUE, hosts_count, "cidr",
                     SizeWarnings(hosts_count))
    ELSE Raised("invalid_cidr")

\* a variant that lets a range of a single host through
StartAfterEnd(start_str, end_str) == IpInt(start_str) > IpInt(end_str)

\* start_ip >= end_ip
StartNotBeforeEnd(start_str, end_str) == IpInt(start_str) >= IpInt(end_str)

\* a variant that does not count the end address
RangeHostsCountExclusive(start_str, end_str) == IpInt(end_str) - IpInt(start_str)

\* hosts_count = int(end_ip) - int(start_ip) + 1
RangeHostsCount(start_str, end_str) == IpInt(end_str) - IpInt(start_str) + 1

_normalize_range(range_input) ==
    LET parts == Split(range_input, "-")
    IN IF Len(parts) # 2 THEN Raised("invalid_range_format")
       ELSE LET start_str == Strip(parts[1])
                end_in == Strip(parts[2])
                short == IsDigitStr(end_in) /\ ~HasChar(end_in, ".")
                end_str == IF short /\ ip_address(start_str) = "v4"
                           THEN Join(SubSeq(Split(start_str, "."), 1, 3) \o <<end_in>>, ".")
                           ELSE end_in
            IN IF ip_address(start_str) = "invalid" THEN Raised("invalid_range")
               ELSE IF short /\ ip_address(start_str) # "v4" THEN Raised("invalid_range")
               ELSE IF ip_address(end_str) = "invalid" THEN Raised("invalid_range")
               ELSE IF ip_address(start_str) # ip_address(end_str) THEN Raised("invalid_range")
               ELSE IF StartNotBeforeEnd(start_str, end_str) THEN Raised("invalid_range")
               ELSE LET hosts_count == RangeHostsCount(start_str, end_str)
                    IN Returned(range_input, range_input, TRUE, hosts_count, "range",
                                SizeWarnings(hosts_count))

\* one label of hostname_pattern: [a-zA-Z0-9]([a-zA-Z0-9\-]{0,61}[a-zA-Z0-9])?
LabelMatches(l) ==
    /\ Len(l) >= 1
    /\ l[1] \in AlnumChars
    /\ Len(l) > 1 =>
          /\ l[Len(l)] \in AlnumChars
          /\ Len(l) - 2 <= LabelMiddleMax
          /\ \A i \in 2..(Len(l) - 1) : l[i] \in AlnumChars \cup {"-"}

\* re.match(hostname_pattern, hostname): labels joined by "."
HostnamePatternMatches(hostname) ==
    LET labels == Split(hostname, ".")
    IN \A i \in 1..Len(labels) : LabelMatches(labels[i])

_normalize_hostname(hostname) ==
    IF ~HostnamePatternMatches(hostname) THEN Raised("invalid_hostname")
    ELSE IF Len(hostname) > MaxHostnameLen THEN Raised("hostname_too_long")
    ELSE Returned(hostname, hostname, FALSE, 0, "hostname", <<>>)

\* a variant that tests  '.0' in user_input  instead of endswith('.0')
BareIpAnyDotZero(s) ==
    IF ip_address(s) = "v4" /\ Contains(s, <<".","0">>)
    THEN LET cidr == s \o <<"/","2","4">>
         IN Returned(s, cidr, TRUE, 256, "cidr",
                     << <<"C","o","n","v","e","r","t","e","d"," ">> \o s \o <<" ","t","o"," ">> \o cidr \o <<" ","(","2","5","6"," ","h","o","s","t","s",")">> >>)
    ELSE Returned(s, s, TRUE, 1, "single_ip", <<>>)

\* the bare-IP branch: an IPv4 literal ending in ".0" becomes a /24
BareIp(s) ==
    IF /\ ip_address(s) = "v4" /\ EndsWith(s, <<".","0">>)
       /\ Len(Split(s, ".")) = 4 /\ Split(s, ".")[4] = <<"0">>
    THEN LET cidr == s \o <<"/","2","4">>
         IN Returned(s, cidr, TRUE, 256, "cidr",
                     << <<"C","o","n","v","e","r","t","e","d"," ">> \o s \o <<" ","t","o"," ">> \o cidr \o <<" ","(","2","5","6"," ","h","o","s","t","s",")">> >>)
    ELSE Returned(s, s, TRUE, 1, "single_ip", <<>>)

normalize_target(raw_input) ==
    LET s == Strip(raw_input)
    IN IF Len(s) = 0 THEN Raised("empty")
       ELSE IF HasChar(s, "/") THEN _normalize_cidr(s)
       ELSE IF HasChar(s, "-") THEN _normalize_range(s)
       ELSE IF ip_address(s) # "invalid" THEN BareIp(s)
       ELSE _normalize_hostname(s)

\* the default of the max_hosts parameter
DefaultMaxHosts == 1024

\* a returned (is_safe, warning_message); message None is has_message = FALSE
SafetyResult(is_safe, has_message, message) ==
    [is_safe |-> is_safe, has_message |-> has_message, message |-> message]

\* a variant that also refuses a target of exactly max_hosts hosts
validate_target_safety_inclusive(target_info, limit) ==
    IF ~target_info.hosts_known THEN SafetyResult(TRUE, FALSE, EmptyStr)
    ELSE IF target_info.hosts_count >= limit
    THEN SafetyResult(FALSE, TRUE, <<"L","a","r","g","e"," ","s","c","a","n"," ","(">> \o IntToStr(target_info.hosts_count)
                                      \o <<" ","h","o","s","t","s",")"," ","r","e","q","u","i","r","e","s"," ","c","o","n","f","i","r","m","a","t","i","o","n">>)
    ELSE SafetyResult(TRUE, FALSE, EmptyStr)

validate_target_safety(target_info, limit) ==
    IF ~target_info.hosts_known THEN SafetyResult(TRUE, FALSE, EmptyStr)
    ELSE IF target_info.hosts_count > limit
    THEN SafetyResult(FALSE, TRUE, <<"L","a","r","g","e"," ","s","c","a","n"," ","(">> \o IntToStr(target_info.hosts_count)
                                      \o <<" ","h","o","s","t","s",")"," ","r","e","q","u","i","r","e","s"," ","c","o","n","f","i","r","m","a","t","i","o","n">>)
    ELSE SafetyResult(TRUE, FALSE, EmptyStr)

(***************************************************************************)
(* The target strings a caller hands to normalize_target.                  *)
(***************************************************************************)
Rep(c, n) == [i \in 1..n |-> c]

BareOctets == { <<"0">>, <<"1","0">>, <<"2","5","5">>, <<"9","9","9">> }
DottedQuads == { Join(<<a, b, c, d>>, ".") : a \in BareOctets, b \in BareOctets,
                                             c \in BareOctets, d \in BareOctets }
IPv6Literals == { <<":",":">>, <<":",":","1">>, <<":",":","5">>, <<":",":","1","0",".","0",".","0",".","0">> }

CidrBases == { <<"1","0",".","0",".","0",".","0">>, <<"1","0",".","0",".","5",".","7">>, <<"9","9","9",".","0",".","0",".","0">> }
CidrMasks == { <<"8">>, <<"1","6">>, <<"2","1">>, <<"2","2">>, <<"2","3">>, <<"2","4">>, <<"2","5">>, <<"3","2">>, <<"3","3">>,
               EmptyStr, <<"x">>, <<"2","5","5",".","2","5","5",".","2","5","2",".","0">>, <<"0",".","0",".","0",".","2","5","5">>, <<"2","4","/","1">> }
CidrInputs == { b \o <<"/">> \o m : b \in CidrBases, m \in CidrMasks }

RangeEnds == { Join(<< <<"1","0">>, <<"0">>, c, d >>, ".") :
                  c \in { <<"0">>, <<"1">>, <<"4">> }, d \in { <<"1">>, <<"1","0">>, <<"2","0">> } }
RangeShortEnds == { <<"1">>, <<"1","0">>, <<"2","0">>, <<"3","0","0">> }
RangeInputs ==
    { a \o <<"-">> \o b : a \in RangeEnds, b \in RangeEnds \cup RangeShortEnds }
    \cup { <<"1","0",".","0",".","0",".","1","-",":",":","1">>, <<":",":","1","-",":",":","5">>, <<":",":","5","-",":",":","1">>, <<":",":","1","-","5">>, <<"1","0",".","0",".","0",".","1"," ","-"," ","1","0",".","0",".","0",".","2","0">>,
           <<"1","0",".","0",".","0",".","1","-","1","0",".","0",".","0",".","2","0","-","1","0",".","0",".","0",".","3","0">>, <<"1","0",".","0",".","0",".","1","-","1","0",".","0",".","1",".","0">>, <<"1","0",".","0",".","0",".","1","-","1","0",".","0",".","4",".","0">>,
           <<":",":","1","-","1","0",".","0",".","0",".","1">>, <<"1","0",".","0",".","0",".","1","-">>, <<"-","1","0",".","0",".","0",".","1">>, <<"1","0",".","0",".","0",".","1","-","0","2","0">> }

Labels == { <<"m","y","-","s","e","r","v","e","r">>, <<"e","x","a","m","p","l","e","-","s","i","t","e">>, <<"c","o","m">>, <<"n","o","t">>, <<"a","n">>, <<"i","p">>, <<"a","_","b">> }
RECURSIVE HostnamesOf(_)
HostnamesOf(n) ==
    IF n = 1 THEN Labels
    ELSE HostnamesOf(n - 1)
         \cup { h \o <<".">> \o l : h \in HostnamesOf(n - 1), l \in Labels }
Hostnames == HostnamesOf(MaxLabels)

\* the label and hostname lengths at the limits of the grammar
LongHostnames ==
    { Rep("a", 63), Rep("a", 64),
      Join(<<Rep("a", 63), Rep("b", 63), Rep("c", 63), Rep("d", 61)>>, "."),
      Join(<<Rep("a", 63), Rep("b", 63), Rep("c", 63), Rep("d", 62)>>, ".") }

PaddedInputs == { EmptyStr, <<" ">>, <<" "," ","1","0",".","0",".","0",".","1"," "," ">>, <<" ","1","0",".","0",".","0",".","0">>, <<"e","x","a","m","p","l","e",".","c","o","m"," ">>,
                  <<" ","1","0",".","0",".","0",".","1","0","-","2","0"," ">>, <<" ","1","0",".","0",".","0",".","0","/","2","2"," ">> }

\* the max_hosts a caller passes to validate_target_safety
MaxHostsChoices == { 1, MediumScanHosts, DefaultMaxHosts }
\* the returned pair before the call
NoSafety == SafetyResult(FALSE, FALSE, EmptyStr)

TargetInputs ==
    DottedQuads \cup IPv6Literals \cup CidrInputs \cup RangeInputs
    \cup Hostnames \cup LongHostnames \cup PaddedInputs

NoResult == Raised("pending")

MatchIdle ==
    /\ cve = [title |-> EmptyStr, description |-> EmptyStr]
    /\ service_info = [service_name |-> EmptyStr, banner |-> EmptyStr,
                       version |-> EmptyStr, product |-> EmptyStr,
                       fingerprint_confidence |-> 0]
    /\ evidence = NoEvidence
    /\ match_pc = "idle"
    /\ decision = Pending

InitTarget ==
    /\ user_input \in TargetInputs
    /\ target_pc = "input"
    /\ target_result = NoResult
    /\ max_hosts = DefaultMaxHosts
    /\ target_safety = NoSafety
    /\ MatchIdle
    /\ FetchIdle
    /\ ScanIdle
    /\ CallIdle

\* the call  normalize_target(user_input)
NormalizeTarget ==
    /\ target_pc = "input"
    /\ target_result' = normalize_target(user_input)
    /\ target_pc' = "done"
    /\ UNCHANGED <<user_input, max_hosts, target_safety, match_vars, fetch_vars, scan_vars, call_vars>>

\* the call  validate_target_safety(target_info, max_hosts)  on a returned target
ValidateTargetSafety ==
    /\ target_pc = "done"
    /\ ~target_result.raised
    /\ \E limit \in MaxHostsChoices :
          /\ max_hosts' = limit
          /\ target_safety' = validate_target_safety(target_result, limit)
    /\ target_pc' = "checked"
    /\ UNCHANGED <<user_input, target_result, match_vars, fetch_vars, scan_vars, call_vars>>

NextTarget == NormalizeTarget \/ ValidateTargetSafety

SpecTarget == InitTarget /\ [][NextTarget]_vars

(***************************************************************************)
(* Properties of strict_match_cve_to_evidence.                             *)
(***************************************************************************)
Matched == match_pc = "done"
Vendors == {VendorOrder[i] : i \in 1..Len(VendorOrder)}
VendorIndex(v) == CHOOSE i \in 1..Len(VendorOrder) : VendorOrder[i] = v

\* the candidate's text as the claims read it: title and description, case ignored
CveText == Lower(cve.title \o <<" ">> \o cve.description)
\* the candidate's text as written
CveRawText == cve.title \o <<" ">> \o cve.description

TextNamesVendor(v) ==
    \E k \in 1..Len(router_vendors[v]) : Contains(CveText, router_vendors[v][k])

\* v is the first vendor of the table, in table order, that the text names
FirstNamedVendor(v) ==
    /\ TextNamesVendor(v)
    /\ \A u \in Vendors : VendorIndex(u) < VendorIndex(v) => ~TextNamesVendor(u)

\* an alias of v appears in banner, server header, HTML title, body tokens or
\* the UPnP model/manufacturer
VendorEvidenceFor(v) ==
    \E k \in 1..Len(router_vendors[v]) :
        LET kw == router_vendors[v][k]
        IN \/ Contains(Lower(service_info.banner), kw)
           \/ Contains(Lower(evidence.server_header), kw)
           \/ Contains(Lower(evidence.html_title), kw)
           \/ kw \in evidence.body_tokens
           \/ Contains(Lower(evidence.upnp_model), kw)
           \/ Contains(Lower(evidence.upnp_manufacturer), kw)

\* a path of reachable_paths occurs in the lower-cased text the code searches
LoweredPathReachable == \E p \in evidence.reachable_paths : Contains(CveText, p)
\* a path of reachable_paths occurs in the text as written
NamedPathReachable == \E p \in evidence.reachable_paths : Contains(CveRawText, p)

KnownProducts == {common_products[i] : i \in 1..Len(common_products)}
ProductIndex(p) == CHOOSE i \in 1..Len(common_products) : common_products[i] = p
TextNamesProduct(p) == Contains(CveText, p)
FirstNamedProduct(p) ==
    /\ TextNamesProduct(p)
    /\ \A q \in KnownProducts : ProductIndex(q) < ProductIndex(p) => ~TextNamesProduct(q)
ProductEvidenceFor(p) ==
    \/ Contains(Lower(service_info.banner), p)
    \/ Contains(Lower(service_info.product), p)
    \/ Contains(Lower(evidence.server_header), p)

TextVersions == cve_versions(CveText)
VersionLiteralObserved ==
    \E k \in 1..Len(TextVersions) : Contains(Lower(service_info.version), TextVersions[k])

\* C1 as stated: a CVE naming a vendor, with no alias of that vendor in any
\* evidence field, is rejected.
C1_VendorWithoutEvidenceRejected ==
    Matched =>
        \A v \in Vendors :
            (TextNamesVendor(v) /\ ~VendorEvidenceFor(v)) => decision.result = FALSE

\* C1 amended: when no path named by the CVE is reachable, a CVE is rejected
\* if the first vendor of the table that its text names has no alias in any
\* evidence field.
C1_FirstVendorWithoutEvidenceRejected ==
    Matched =>
        \A v \in Vendors :
            (FirstNamedVendor(v) /\ ~VendorEvidenceFor(v) /\ ~LoweredPathReachable)
                => decision.result = FALSE

\* the regression case: a Tenda CVE against a device whose banner is miniupnpd/1.9
C1_Witness ==
    /\ Matched
    /\ FirstNamedVendor("tenda") /\ ~VendorEvidenceFor("tenda") /\ ~LoweredPathReachable
    /\ service_info.banner = <<"m","i","n","i","u","p","n","p","d","/","1",".","9">>
    /\ decision.result = FALSE

\* C2 as stated: a CVE whose text contains a path that is an element of
\* reachable_paths is accepted, whatever the other signals are.
C2_ReachablePathAccepted ==
    (Matched /\ NamedPathReachable) => decision.result = TRUE

\* C3 as stated: a CVE naming a vendor is accepted when an alias of that
\* vendor appears in some evidence field.
C3_VendorWithEvidenceAccepted ==
    Matched =>
        \A v \in Vendors :
            (TextNamesVendor(v) /\ VendorEvidenceFor(v)) => decision.result = TRUE

\* C3 amended: a CVE is accepted when an alias of the first vendor of the
\* table that its text names appears in some evidence field.
C3_FirstVendorWithEvidenceAccepted ==
    Matched =>
        \A v \in Vendors :
            (FirstNamedVendor(v) /\ VendorEvidenceFor(v)) => decision.result = TRUE

C3_Witness ==
    /\ Matched
    /\ FirstNamedVendor("tenda") /\ VendorEvidenceFor("tenda")
    /\ ~LoweredPathReachable
    /\ decision.result = TRUE

\* C4 as stated: a CVE naming a known product that is absent from banner,
\* product field and server header is rejected.
C4_ProductAbsentRejected ==
    Matched =>
        \A p \in KnownProducts :
            (TextNamesProduct(p) /\ ~ProductEvidenceFor(p)) => decision.result = FALSE

\* C4 amended: a CVE that names no reachable path, no router vendor and no
\* version literal contained in the observed version is rejected if the first
\* known product (in list order) that its text names is absent from banner,
\* product field and server header.
C4_FirstProductAbsentRejected ==
    Matched =>
        \A p \in KnownProducts :
            ( /\ FirstNamedProduct(p) /\ ~ProductEvidenceFor(p)
              /\ ~LoweredPathReachable
              /\ \A v \in Vendors : ~TextNamesVendor(v)
              /\ ~VersionLiteralObserved )
                => decision.result = FALSE

C4_Witness ==
    /\ Matched
    /\ \E p \in KnownProducts : FirstNamedProduct(p) /\ ~ProductEvidenceFor(p)
    /\ ~LoweredPathReachable
    /\ \A v \in Vendors : ~TextNamesVendor(v)
    /\ ~VersionLiteralObserved
    /\ service_info.fingerprint_confidence >= 80
    /\ decision.result = FALSE

\* C5: default deny. An accepted candidate has at least one corroborating
\* signal: a named path that is reachable, an alias of a vendor it names in the
\* evidence, one of its version literals in the observed version, a known
\* product it names in banner/product/server header, or fingerprint
\* confidence >= 80 with the service name in its text.
C5_AcceptedOnlyWithSignal ==
    (Matched /\ decision.result = TRUE) =>
        \/ LoweredPathReachable
        \/ \E v \in Vendors : TextNamesVendor(v) /\ VendorEvidenceFor(v)
        \/ VersionLiteralObserved
        \/ \E p \in KnownProducts : TextNamesProduct(p) /\ ProductEvidenceFor(p)
        \/ /\ service_info.fingerprint_confidence >= 80
           /\ Contains(CveText, Lower(service_info.service_name))

\* a candidate that shares only the service keyword with the observation, seen
\* with a fingerprint confidence just below the threshold, is rejected
C5_Witness ==
    /\ Matched
    /\ Contains(CveText, Lower(service_info.service_name))
    /\ service_info.fingerprint_confidence = 79
    /\ decision = [result |-> FALSE, reason |-> "default"]

\* C6 as stated: the generic fallback accepts only a candidate whose text has
\* no vendor alias, no known product and no dotted version token, seen with
\* fingerprint confidence >= 80 and the service name in its text.
C6_FallbackOnlyForGenericText ==
    (Matched /\ decision.reason = "generic") =>
        /\ \A v \in Vendors : ~TextNamesVendor(v)
        /\ \A p \in KnownProducts : ~TextNamesProduct(p)
        /\ Len(TextVersions) = 0
        /\ service_info.fingerprint_confidence >= 80
        /\ Contains(CveText, Lower(service_info.service_name))

\* the scenario of C7: empty product and version, the Apache server header, the
\* candidate titled "Apache HTTP Server 2.4.58 vulnerability"
C7_Scenario ==
    /\ cve.title = <<"A","p","a","c","h","e"," ","H","T","T","P"," ","S","e","r","v","e","r"," ","2",".","4",".","5","8"," ","v","u","l","n","e","r","a","b","i","l","i","t","y">>
    /\ cve.description = EmptyStr
    /\ service_info.product = EmptyStr
    /\ service_info.version = EmptyStr
    /\ evidence.server_header = <<"A","p","a","c","h","e","/","2",".","4",".","5","8"," ","(","U","b","u","n","t","u",")">>

\* C7 as stated: the scenario's candidate is accepted, and by the
\* version-literal rule (rule 3).
C7_AcceptedByVersionRule ==
    (Matched /\ C7_Scenario) => (decision.result = TRUE /\ RuleOf(decision.reason) = 3)

\* C7 amended: the scenario's candidate is accepted, and by the known-product
\* rule (rule 4), the version-literal rule being skipped for an empty version.
C7_AcceptedByProductRule ==
    (Matched /\ C7_Scenario) => (decision.result = TRUE /\ RuleOf(decision.reason) = 4)

C7_Witness ==
    /\ Matched /\ C7_Scenario
    /\ service_info.banner = EmptyStr
    /\ decision = [result |-> TRUE, reason |-> "product_server_header"]


(***************************************************************************)
(* services/cve_service.py: vendor detection and the legacy filters.       *)
(***************************************************************************)
EXCLUDED_KEYWORDS ==
    << <<"r","o","u","t","e","r">>, <<"f","i","r","m","w","a","r","e">>, <<"t","e","n","d","a">>, <<"t","p","-","l","i","n","k">>, <<"w","e","b","l","o","g","i","c">>, <<"c","i","s","c","o">>, <<"d","-","l","i","n","k">>,
       <<"z","y","x","e","l">>, <<"i","o","t">>, <<"c","a","m","e","r","a">>, <<"m","o","d","e","m">>, <<"p","r","i","n","t","e","r">>, <<"n","e","t","g","e","a","r">>, <<"l","i","n","k","s","y","s">>,
       <<"b","u","f","f","a","l","o">>, <<"a","s","u","s"," ","r","o","u","t","e","r">>, <<"b","e","l","k","i","n">>, <<"h","u","a","w","e","i"," ","r","o","u","t","e","r">>, <<"w","i","r","e","l","e","s","s"," ","r","o","u","t","e","r">>,
       <<"b","r","o","a","d","b","a","n","d"," ","r","o","u","t","e","r">>, <<"a","c","c","e","s","s"," ","p","o","i","n","t">>, <<"w","r","t","5","4","g">>, <<"f","r","i","t","z","b","o","x"," ","r","o","u","t","e","r"," ","f","i","r","m","w","a","r","e">>,
       <<"a","c","1","8">>, <<"a","c","1","5">>, <<"a","c","1","2","0","0">>, <<"k","e","r","n","e","l"," ","1",".","0">>, <<"k","e","r","n","e","l"," ","2",".","0">>, <<"k","e","r","n","e","l"," ","2",".","2">>,
       <<"e","m","b","e","d","d","e","d"," ","d","e","v","i","c","e">>, <<"s","m","a","r","t"," ","t","v">>, <<"s","e","t","-","t","o","p"," ","b","o","x">>, <<"d","v","r">> >>

EXCLUDED_VENDORS ==
    << <<"t","e","n","d","a">>, <<"t","p","-","l","i","n","k">>, <<"d","-","l","i","n","k">>, <<"z","y","x","e","l">>, <<"a","s","u","s"," ","r","o","u","t","e","r">>, <<"n","e","t","g","e","a","r">>,
       <<"l","i","n","k","s","y","s">>, <<"b","u","f","f","a","l","o">>, <<"b","e","l","k","i","n">> >>

\* SERVICE_VENDOR_MAP as (service name, vendor) pairs
SERVICE_VENDOR_MAP ==
    << << <<"F","R","I","T","Z","!","B","o","x"," ","h","t","t","p"," ","c","o","n","f","i","g">>, <<"A","V","M"," ","F","R","I","T","Z","!","B","o","x">> >>,
       << <<"F","R","I","T","Z","!","O","S">>, <<"A","V","M"," ","F","R","I","T","Z","!","B","o","x">> >>,
       << <<"T","e","n","d","a"," ","h","t","t","p"," ","c","o","n","f","i","g">>, <<"T","e","n","d","a">> >>,
       << <<"T","P","-","L","i","n","k"," ","r","o","u","t","e","r"," ","h","t","t","p">>, <<"T","P","-","L","i","n","k">> >>,
       << <<"D","-","L","i","n","k"," ","r","o","u","t","e","r"," ","a","d","m","i","n">>, <<"D","-","L","i","n","k">> >>,
       << <<"N","e","t","g","e","a","r"," ","g","e","n","i","e">>, <<"N","e","t","g","e","a","r">> >> >>

Generic == <<"G","e","n","e","r","i","c">>
Unknown == <<"u","n","k","n","o","w","n">>

detect_vendor(service_name, version) ==
    LET combined == Lower(service_name \o <<" ">> \o version)
        mapped == {i \in 1..Len(SERVICE_VENDOR_MAP) : SERVICE_VENDOR_MAP[i][1] = service_name}
    IN IF mapped # {} THEN SERVICE_VENDOR_MAP[CHOOSE i \in mapped : TRUE][2]
       ELSE IF Contains(combined, <<"f","r","i","t","z">>) \/ Contains(combined, <<"a","v","m">>)
       THEN <<"A","V","M"," ","F","R","I","T","Z","!","B","o","x">>
       ELSE IF Contains(combined, <<"t","e","n","d","a">>) THEN <<"T","e","n","d","a">>
       ELSE IF Contains(combined, <<"t","p","-","l","i","n","k">>) THEN <<"T","P","-","L","i","n","k">>
       ELSE IF Contains(combined, <<"d","-","l","i","n","k">>) THEN <<"D","-","L","i","n","k">>
       ELSE IF Contains(combined, <<"n","e","t","g","e","a","r">>) THEN <<"N","e","t","g","e","a","r">>
       ELSE IF Contains(combined, <<"a","s","u","s">>) /\ Contains(combined, <<"r","o","u","t","e","r">>) THEN <<"A","S","U","S">>
       ELSE IF Contains(combined, <<"c","i","s","c","o">>) THEN <<"C","i","s","c","o">>
       ELSE IF Contains(combined, <<"z","y","x","e","l">>) THEN <<"Z","y","x","e","l">>
       ELSE Generic

\* str.split() on blanks: the non-empty words of s
SplitWords(s) == SelectSeq(Split(s, " "), LAMBDA w : w # EmptyStr)

filter_cves_by_vendor(cve_results, product_name) ==
    LET product == Lower(product_name)
        keep(c) ==
            LET text == title_desc_of(c)
            IN IF product_name # Generic
               THEN \/ Contains(text, SplitWords(Lower(product))[1])
                    \/ ~AnyIn(EXCLUDED_VENDORS \o << <<"c","i","s","c","o">>, <<"z","y","x","e","l">> >>, text)
               ELSE ~AnyIn(EXCLUDED_VENDORS
                             \o << <<"c","i","s","c","o">>, <<"z","y","x","e","l">>, <<"r","o","u","t","e","r">>, <<"f","i","r","m","w","a","r","e">> >>, text)
    IN SelectSeq(cve_results, keep)

exclude_unrelated_router_cves(cve_results, product_name) ==
    LET product == Lower(product_name)
        keep(c) ==
            LET text == title_desc_of(c)
                is_other_vendor == AnyIn(EXCLUDED_VENDORS \o << <<"c","i","s","c","o">>, <<"z","y","x","e","l">> >>, text)
                is_our_vendor == AnyIn(SplitWords(product), text)
            IN IF product_name = Generic THEN ~is_other_vendor
               ELSE ~(is_other_vendor /\ ~is_our_vendor)
    IN SelectSeq(cve_results, keep)

filter_cves_by_os(os_name_in, cve_results) ==
    IF os_name_in = EmptyStr \/ Lower(os_name_in) = Unknown THEN cve_results
    ELSE LET os == Lower(os_name_in)
             keep(c) ==
                 LET desc == title_desc_of(c)
                 IN \/ /\ Contains(os, <<"w","i","n","d","o","w","s">>)
                       /\ AnyIn(<< <<"w","i","n","d","o","w","s">>, <<"s","m","b">>, <<"r","d","p">>, <<"r","p","c">>, <<"e","d","g","e">>,
                                   <<"i","n","t","e","r","n","e","t"," ","e","x","p","l","o","r","e","r">>, <<"m","i","c","r","o","s","o","f","t">>,
                                   <<"a","c","t","i","v","e"," ","d","i","r","e","c","t","o","r","y">>, <<"i","i","s">>, <<"n","e","t","b","i","o","s">> >>, desc)
                    \/ /\ Contains(os, <<"l","i","n","u","x">>)
                       /\ AnyIn(<< <<"l","i","n","u","x">>, <<"k","e","r","n","e","l">>, <<"u","b","u","n","t","u">>, <<"d","e","b","i","a","n">>, <<"s","s","h">>,
                                   <<"a","p","a","c","h","e">>, <<"n","g","i","n","x">>, <<"r","e","d"," ","h","a","t">>, <<"c","e","n","t","o","s">>,
                                   <<"f","e","d","o","r","a">>, <<"s","u","s","e">> >>, desc)
                    \/ Contains(os, <<"m","a","c">>)
                    \/ /\ Contains(os, <<"d","a","r","w","i","n">>)
                       /\ AnyIn(<< <<"m","a","c","o","s">>, <<"m","a","c"," ","o","s">>, <<"a","p","p","l","e">>, <<"s","a","f","a","r","i">>,
                                   <<"d","a","r","w","i","n">> >>, desc)
                    \/ ~AnyIn(<< <<"w","i","n","d","o","w","s">>, <<"l","i","n","u","x">>, <<"m","a","c">>, <<"m","a","c","o","s">>, <<"d","a","r","w","i","n">>,
                                 <<"r","o","u","t","e","r">>, <<"f","i","r","m","w","a","r","e">> >>, desc)
         IN SelectSeq(cve_results, keep)

exclude_unrelated_cves(cve_results) ==
    SelectSeq(cve_results, LAMBDA c : ~AnyIn(EXCLUDED_KEYWORDS, title_desc_of(c)))

\* the thresholds of filter_by_age_and_score; scores are in tenths
MinYear == 2020
MinScore10 == 60
RecentYear == 2024

\* re.search(r'CVE-(\d{4})-', cve_id): the year of the first match, 0 if none
YearOf(cve_id) ==
    LET hits == {i \in 1..(Len(cve_id) - 8) :
                    /\ SubSeq(cve_id, i, i + 3) = <<"C","V","E","-">>
                    /\ IsDigitStr(SubSeq(cve_id, i + 4, i + 7))
                    /\ cve_id[i + 8] = "-"}
    IN IF hits = {} THEN 0
       ELSE LET i == CHOOSE k \in hits : \A j \in hits : k <= j
            IN StrToInt(SubSeq(cve_id, i + 4, i + 7))

\* a variant that keeps an older candidate whose score meets the minimum
filter_by_age_or_score(cve_results) ==
    LET keep(c) ==
            LET year == YearOf(c.id)
                cvss_score == IF c.has_cvss THEN c.cvss10 ELSE 0
            IN \/ year # 0 /\ cvss_score >= MinScore10
               \/ year >= RecentYear /\ cvss_score = 0
    IN SelectSeq(cve_results, keep)

filter_by_age_and_score(cve_results) ==
    LET keep(c) ==
            LET year == YearOf(c.id)
                cvss_score == IF c.has_cvss THEN c.cvss10 ELSE 0
            IN \/ year >= MinYear /\ cvss_score >= MinScore10
               \/ year >= RecentYear /\ cvss_score = 0
    IN SelectSeq(cve_results, keep)

(***************************************************************************)
(* services/cve_service.py: fetch_cves_for_service.                        *)
(***************************************************************************)
\* the services for which a lookup without version is skipped
generic_services ==
    << <<"u","p","n","p">>, <<"h","t","t","p","-","a","l","t">>, <<"h","t","t","p","-","p","r","o","x","y">>, <<"h","t","t","p","s","-","a","l","t">>, <<"p","p","p">>, <<"c","s","l","i","s","t","e","n","e","r">>,
       <<"u","n","k","n","o","w","n">> >>

\* the parameters of fetch_cves_for_service
fetch_parameters == {"service_name", "version", "os_name", "service_info", "evidence"}

\* not version or version == "unknown" or version == ""
NoVersion(version) == version = EmptyStr \/ version = Unknown

\* the lookup is skipped: a generic product without version (both returns of
\* the branch give the empty list)
SkipsLookup(product, version) == product = Generic /\ NoVersion(version)

search_query_of(service_name, version, product) ==
    IF product # Generic THEN product
    ELSE IF version # EmptyStr /\ version # Unknown
    THEN IF Contains(Lower(version), <<"n","g","i","n","x">>) THEN <<"n","g","i","n","x"," ">> \o version
         ELSE IF Contains(Lower(version), <<"a","p","a","c","h","e">>) THEN <<"a","p","a","c","h","e"," ">> \o version
         ELSE service_name \o <<" ">> \o version
    ELSE service_name

\* one entry of data["vulnerabilities"] as a CVE record
ParseVulnerability(v) ==
    [id |-> v.id, title |-> v.id,
     description |-> IF v.has_en THEN v.description ELSE <<"N","o"," ","d","e","s","c","r","i","p","t","i","o","n"," ","a","v","a","i","l","a","b","l","e">>,
     has_cvss |-> v.has_cvss, cvss10 |-> v.cvss10]

ParseVulnerabilities(vs) == [i \in 1..Len(vs) |-> ParseVulnerability(vs[i])]

\* truth value of an optional dictionary argument: None and {} are false
Truthy(arg) == arg.kind = "given"

StrictFilter(cves, si, ev) ==
    [cves |-> SelectSeq(cves, LAMBDA c : strict_match_cve_to_evidence(c, si.value, ev.value)),
     log |-> <<"strict_match_cve_to_evidence">>]

\* the legacy filters, in the order of their calls
LegacyChain(cves, product, os) ==
    [cves |-> filter_cves_by_os(os,
                filter_by_age_and_score(
                  exclude_unrelated_cves(
                    filter_cves_by_vendor(
                      exclude_unrelated_router_cves(cves, product), product)))),
     log |-> <<"exclude_unrelated_router_cves", "filter_cves_by_vendor",
               "exclude_unrelated_cves", "filter_by_age_and_score", "filter_cves_by_os">>]

\* a variant that runs the legacy filters after the strict procedure as well
ApplyFiltersBoth(cves, product, os, si, ev) ==
    IF Truthy(si) /\ Truthy(ev)
    THEN LET s == StrictFilter(cves, si, ev)
             l == LegacyChain(s.cves, product, os)
         IN [cves |-> l.cves, log |-> s.log \o l.log]
    ELSE LegacyChain(cves, product, os)

\* if service_info and evidence: ... else: ...
ApplyFilters(cves, product, os, si, ev) ==
    IF Truthy(si) /\ Truthy(ev) THEN StrictFilter(cves, si, ev)
    ELSE LegacyChain(cves, product, os)

\* the classes of the exceptions the body can raise, each with its base classes
ExceptionBases ==
    [Timeout |-> {"Timeout", "RequestException", "Exception"},
     ConnectionError |-> {"ConnectionError", "RequestException", "Exception"},
     HTTPError |-> {"HTTPError", "RequestException", "Exception"},
     JSONDecodeError |-> {"JSONDecodeError", "RequestException", "ValueError", "Exception"},
     ValueError |-> {"ValueError", "Exception"},
     AttributeError |-> {"AttributeError", "Exception"},
     TypeError |-> {"TypeError", "Exception"},
     IndexError |-> {"IndexError", "Exception"}]

\* a variant without the last clause,  except Exception
except_clauses_requests_only ==
    << [class |-> "Timeout", error |-> "Timeout while fetching CVE data"],
       [class |-> "RequestException", error |-> "Network error"] >>

\* the except clauses of fetch_cves_for_service, in order, with the error
\* message each returns
except_clauses ==
    << [class |-> "Timeout", error |-> "Timeout while fetching CVE data"],
       [class |-> "RequestException", error |-> "Network error"],
       [class |-> "Exception", error |-> "Unexpected error"] >>

\* a value returned by the call
FetchReturned(value) == [raised |-> FALSE, value |-> value]
\* an exception that leaves the call
FetchRaised(exc) == [raised |-> TRUE, value |-> <<>>, exception |-> exc]

\* try: ... except: the first clause that names a base class of the
\* exception returns its one error record; without one the exception leaves
\* the function
HandleException(exc) ==
    LET matching == {i \in 1..Len(except_clauses) :
                        except_clauses[i].class \in ExceptionBases[exc]}
    IN IF matching = {} THEN FetchRaised(exc)
       ELSE LET first == CHOOSE i \in matching : \A j \in matching : i <= j
            IN FetchReturned(<< [error |-> except_clauses[first].error] >>)

\* how one upsert of the result store ends: "ok" or the exception raised
UpsertOutcomes == {"ok", "ConnectionError"}

NothingSaved == [upserts |-> <<>>, raised |-> "none"]

\* a variant without the try/except around the upsert: the first failure
\* ends the loop and leaves the function
save_cves_unguarded(cves, outcomes) ==
    LET failures == {i \in 1..Len(cves) : outcomes[i] # "ok"}
        first == CHOOSE i \in failures : \A j \in failures : i <= j
    IN IF ~supabase THEN NothingSaved
       ELSE IF failures = {}
       THEN [upserts |-> [i \in 1..Len(cves) |-> [id |-> cves[i].id, outcome |-> "ok"]],
             raised |-> "none"]
       ELSE [upserts |-> [i \in 1..first |-> [id |-> cves[i].id, outcome |-> outcomes[i]]],
             raised |-> outcomes[first]]

\* save_cves_to_supabase: nothing without a client; otherwise one upsert per
\* CVE of the list, a failing upsert is reported and the loop goes on
save_cves_to_supabase(cves, outcomes) ==
    IF ~supabase THEN NothingSaved
    ELSE [upserts |-> [i \in 1..Len(cves) |-> [id |-> cves[i].id, outcome |-> outcomes[i]]],
          raised |-> "none"]

\* the ids the store holds after the upserts
StoredIds(done) == {done[i].id : i \in {k \in 1..Len(done) : done[k].outcome = "ok"}}

IdsOf(cves) == {cves[i].id : i \in 1..Len(cves)}

(***************************************************************************)
(* The calls of fetch_cves_for_service and the answers of the NVD API.     *)
(***************************************************************************)
\* how many vulnerabilities one answer of the API holds at most
MaxCandidates == 2

FetchServiceNames == { <<"h","t","t","p">>, <<"u","p","n","p">>, <<"T","e","n","d","a"," ","h","t","t","p"," ","c","o","n","f","i","g">>, <<"c","i","s","c","o","-","s","c","c","p">> }
FetchVersions == { EmptyStr, Unknown, <<"2",".","4",".","5","8">>, <<"n","g","i","n","x"," ","1",".","1","8",".","0">> }
OsNames == { Unknown, <<"L","i","n","u","x"," ","5",".","4">> }

\* an optional dictionary argument: None, {} or a populated dictionary
NoneArg == [kind |-> "none"]
EmptyArg == [kind |-> "empty"]
ObservedService ==
    [kind |-> "given",
     value |-> [service_name |-> <<"h","t","t","p">>, banner |-> <<"A","p","a","c","h","e","/","2",".","4",".","5","8"," ","(","U","b","u","n","t","u",")">>,
                version |-> <<"2",".","4",".","5","8">>, product |-> <<"A","p","a","c","h","e"," ","h","t","t","p","d">>,
                fingerprint_confidence |-> 90]]
CollectedEvidence ==
    [kind |-> "given",
     value |-> [server_header |-> <<"A","p","a","c","h","e","/","2",".","4",".","5","8"," ","(","U","b","u","n","t","u",")">>, html_title |-> EmptyStr,
                body_tokens |-> {}, reachable_paths |-> {}, upnp_model |-> EmptyStr,
                upnp_manufacturer |-> EmptyStr]]

\* (service_info, evidence) as a caller passes them
Observations ==
    { <<NoneArg, NoneArg>>, <<ObservedService, EmptyArg>>, <<NoneArg, CollectedEvidence>>,
      <<ObservedService, CollectedEvidence>> }

FetchArgs ==
    { [service_name |-> n, version |-> v, os_name |-> os,
       service_info |-> obs[1], evidence |-> obs[2]] :
         n \in FetchServiceNames, v \in FetchVersions, os \in OsNames, obs \in Observations }

\* entries of data["vulnerabilities"]
Vulnerabilities ==
    { [id |-> <<"C","V","E","-","2","0","2","4","-","0","0","0","1">>, has_en |-> TRUE, description |-> <<"T","e","n","d","a"," ","A","C","1","8"," ","r","o","u","t","e","r"," ","f","l","a","w">>,
       has_cvss |-> TRUE, cvss10 |-> 98],
      [id |-> <<"C","V","E","-","2","0","2","1","-","0","0","0","2">>, has_en |-> TRUE,
       description |-> <<"A","p","a","c","h","e"," ","H","T","T","P"," ","S","e","r","v","e","r"," ","2",".","4",".","5","8"," ","o","v","e","r","f","l","o","w"," ","o","n"," ","l","i","n","u","x">>,
       has_cvss |-> TRUE, cvss10 |-> 75],
      [id |-> <<"C","V","E","-","2","0","1","9","-","0","0","0","3">>, has_en |-> TRUE, description |-> <<"n","g","i","n","x"," ","1",".","1","8",".","0"," ","i","s","s","u","e">>,
       has_cvss |-> FALSE, cvss10 |-> 0],
      [id |-> <<"C","V","E","-","2","0","2","4","-","0","0","0","4">>, has_en |-> FALSE, description |-> EmptyStr,
       has_cvss |-> FALSE, cvss10 |-> 0] }

Payloads == UNION { [1..n -> Vulnerabilities] : n \in 0..MaxCandidates }

\* what requests.get, raise_for_status, response.json() and the walk over the
\* decoded data can do: raise, or give the list of vulnerabilities
NvdAnswers ==
    { [kind |-> "raises", exception |-> e, vulnerabilities |-> <<>>] :
         e \in DOMAIN ExceptionBases }
    \cup { [kind |-> "ok", exception |-> "none", vulnerabilities |-> p] : p \in Payloads }

InitFetch ==
    /\ fetch_pc = "start"
    /\ fetch_args \in FetchArgs
    /\ nvd_queries = <<>>
    /\ fetch_log = <<>>
    /\ nvd_answer = "none"
    /\ fetch_result = FetchReturned(<<>>)
    /\ supabase \in BOOLEAN
    /\ store = {}
    /\ raw_cves = <<>>
    /\ upserts = <<>>
    /\ MatchIdle
    /\ TargetIdle
    /\ ScanIdle
    /\ CallIdle

\* fetch_cves_for_service up to requests.get: the empty list without a query,
\* or the query sent to the API
FetchStart ==
    /\ fetch_pc = "start"
    /\ LET product == detect_vendor(fetch_args.service_name, fetch_args.version)
       IN IF SkipsLookup(product, fetch_args.version)
          THEN /\ fetch_result' = FetchReturned(<<>>)
               /\ fetch_pc' = "done"
               /\ UNCHANGED nvd_queries
          ELSE /\ nvd_queries' = Append(nvd_queries,
                     search_query_of(fetch_args.service_name, fetch_args.version, product))
               /\ fetch_pc' = "query"
               /\ UNCHANGED fetch_result
    /\ UNCHANGED <<fetch_args, nvd_answer, fetch_log, supabase, store, raw_cves, upserts,
                   match_vars, target_vars, scan_vars, call_vars>>

\* the request fails, or its answer is not the expected JSON: the exception
\* goes through the except clauses
FetchFails ==
    /\ fetch_pc = "query"
    /\ \E answer \in NvdAnswers :
          /\ answer.kind = "raises"
          /\ nvd_answer' = answer.exception
          /\ fetch_result' = HandleException(answer.exception)
    /\ fetch_pc' = "done"
    /\ UNCHANGED <<fetch_args, nvd_queries, fetch_log, supabase, store, raw_cves, upserts,
                   match_vars, target_vars, scan_vars, call_vars>>

\* the answer arrives: the records are built, filtered, saved and returned
FetchReturns ==
    /\ fetch_pc = "query"
    /\ \E answer \in NvdAnswers :
          /\ answer.kind = "ok"
          /\ nvd_answer' = "ok"
          /\ raw_cves' = ParseVulnerabilities(answer.vulnerabilities)
          /\ \E filtered \in
                   { ApplyFilters(ParseVulnerabilities(answer.vulnerabilities),
                                  detect_vendor(fetch_args.service_name, fetch_args.version),
                                  fetch_args.os_name,
                                  fetch_args.service_info, fetch_args.evidence) } :
                /\ fetch_log' = filtered.log
                /\ \E outcomes \in IF supabase
                                    THEN [1..Len(filtered.cves) -> UpsertOutcomes]
                                    ELSE {<<>>} :
                      \E saved \in { IF filtered.cves # <<>>
                                     THEN save_cves_to_supabase(filtered.cves, outcomes)
                                     ELSE NothingSaved } :
                         /\ upserts' = saved.upserts
                         /\ store' = store \cup StoredIds(saved.upserts)
                         /\ fetch_result' = IF saved.raised = "none"
                                            THEN FetchReturned(filtered.cves)
                                            ELSE HandleException(saved.raised)
    /\ fetch_pc' = "done"
    /\ UNCHANGED <<fetch_args, nvd_queries, supabase, match_vars, target_vars, scan_vars, call_vars>>

NextFetch == FetchStart \/ FetchFails \/ FetchReturns

SpecFetch == InitFetch /\ [][NextFetch]_vars

(***************************************************************************)
(* services/http_inspector.py: what the scan reads of the HTTP evidence.   *)
(***************************************************************************)
product_map ==
    << << <<"a","p","a","c","h","e">>, <<"A","p","a","c","h","e"," ","h","t","t","p","d">> >>, << <<"h","t","t","p","d">>, <<"A","p","a","c","h","e"," ","h","t","t","p","d">> >>,
       << <<"m","i","c","r","o","s","o","f","t","-","i","i","s">>, <<"M","i","c","r","o","s","o","f","t"," ","I","I","S">> >>, << <<"i","i","s">>, <<"M","i","c","r","o","s","o","f","t"," ","I","I","S">> >>,
       << <<"n","g","i","n","x">>, <<"n","g","i","n","x">> >>, << <<"l","i","g","h","t","t","p","d">>, <<"l","i","g","h","t","t","p","d">> >>,
       << <<"t","o","m","c","a","t">>, <<"A","p","a","c","h","e"," ","T","o","m","c","a","t">> >>, << <<"j","e","t","t","y">>, <<"E","c","l","i","p","s","e"," ","J","e","t","t","y">> >> >>

\* product_map.get(product, product)
MappedProduct(product) ==
    LET hits == {i \in 1..Len(product_map) : product_map[i][1] = product}
    IN IF hits = {} THEN product ELSE product_map[CHOOSE i \in hits : TRUE][2]

\* re.match(r'^([a-zA-Z0-9_-]+)(?:/([0-9.]+))?', header); None is the empty string
parse_server_header(server_header) ==
    LET h == Strip(server_header)
        stop == RunStop(h, 1, AlnumChars \cup {"_", "-"})
        vstop == RunStop(h, stop + 1, Digits \cup {"."})
    IN IF server_header = EmptyStr \/ stop = 1
       THEN [product |-> EmptyStr, version |-> EmptyStr]
       ELSE [product |-> MappedProduct(Lower(SubSeq(h, 1, stop - 1))),
             version |-> IF stop <= Len(h) /\ h[stop] = "/" /\ vstop > stop + 1
                         THEN SubSeq(h, stop + 1, vstop - 1)
                         ELSE EmptyStr]

\* the evidence of a port that was not inspected:  evidence = {}
NoHttpEvidence ==
    [collected |-> FALSE, product |-> EmptyStr, version |-> EmptyStr,
     confidence |-> "low", evidence_sources |-> <<>>, recommendations |-> <<>>]

\* inspect_http_service, given the answers of the HTTP and TLS probes
inspect_http_service(port, answer) ==
    LET parsed == IF answer.success /\ answer.server # EmptyStr
                  THEN parse_server_header(answer.server)
                  ELSE [product |-> EmptyStr, version |-> EmptyStr]
        header_recs ==
            IF ~answer.success THEN <<>>
            ELSE IF answer.server = EmptyStr
            THEN << <<"N","o"," ","S","e","r","v","e","r"," ","h","e","a","d","e","r"," ","p","r","e","s","e","n","t","."," ","S","e","r","v","i","c","e"," ","f","i","n","g","e","r","p","r","i","n","t","i","n","g"," ","m","a","y"," ","b","e"," ","l","i","m","i","t","e","d",".">> >>
            ELSE IF parsed.product # EmptyStr /\ parsed.version = EmptyStr
            THEN << <<"S","e","r","v","e","r"," ","h","e","a","d","e","r"," ","l","a","c","k","s"," ","v","e","r","s","i","o","n"," ","i","n","f","o","r","m","a","t","i","o","n","."," ","C","o","n","s","i","d","e","r"," ","a","u","t","h","e","n","t","i","c","a","t","e","d"," ","s","c","a","n"," ","f","o","r"," ","p","r","e","c","i","s","e"," ","v","e","r","s","i","o","n"," ","d","e","t","e","c","t","i","o","n",".">> >>
            ELSE <<>>
        redirect == answer.success /\ answer.redirect_to_https
        tls_recs ==
            IF (port = 443 \/ redirect) /\ answer.tls_success
            THEN (IF ~answer.cert_valid
                  THEN << <<"T","L","S"," ","c","e","r","t","i","f","i","c","a","t","e"," ","v","a","l","i","d","a","t","i","o","n"," ","f","a","i","l","e","d","."," ","C","h","e","c","k"," ","c","e","r","t","i","f","i","c","a","t","e"," ","v","a","l","i","d","i","t","y"," ","a","n","d"," ","t","r","u","s","t"," ","c","h","a","i","n",".">> >>
                  ELSE <<>>)
                 \o (IF answer.cert_expired
                     THEN << <<"T","L","S"," ","c","e","r","t","i","f","i","c","a","t","e"," ","i","s"," ","e","x","p","i","r","e","d","."," ","U","p","d","a","t","e"," ","c","e","r","t","i","f","i","c","a","t","e"," ","i","m","m","e","d","i","a","t","e","l","y",".">> >>
                     ELSE <<>>)
            ELSE <<>>
    IN [collected |-> TRUE, product |-> parsed.product, version |-> parsed.version,
        confidence |-> IF parsed.product # EmptyStr /\ parsed.version # EmptyStr THEN "high"
                       ELSE IF parsed.product # EmptyStr THEN "medium" ELSE "low",
        evidence_sources |-> IF answer.success /\ answer.server # EmptyStr
                             THEN <<"server_header">> ELSE <<>>,
        recommendations |-> header_recs \o tls_recs]

(***************************************************************************)
(* services/service_probe.py: probe_http_service.                          *)
(***************************************************************************)
\* the ports probed over https
HttpsPorts == {443, 8443}

\* the confidence added by a HEAD answer, a GET answer with headers, each
\* detected server technology, the proxy detection and the TLS data
HeadConfidence == 25
GetConfidence == 15
TechnologyBoost == 30
ProxyBoost == 20
TlsConfidence == 10
SslRetryConfidence == 40
MaxConfidence == 100

Min(a, b) == IF a <= b THEN a ELSE b

\* confidence_boost: one boost for OpenResty or else nginx, one for Apache,
\* and the boost of the proxy detection, whose dictionary is never empty
confidence_boost(server_header) ==
    (IF Contains(server_header, <<"o","p","e","n","r","e","s","t","y">>) THEN TechnologyBoost ELSE 0)
    + (IF Contains(server_header, <<"n","g","i","n","x">>) /\ ~Contains(server_header, <<"o","p","e","n","r","e","s","t","y">>)
       THEN TechnologyBoost ELSE 0)
    + (IF Contains(server_header, <<"a","p","a","c","h","e">>) THEN TechnologyBoost ELSE 0)
    + ProxyBoost

\* a variant that adds the TLS confidence before the bound is applied
SuccessConfidenceClamped(base, server_header, tls_data) ==
    Min(base + confidence_boost(server_header) + (IF tls_data THEN TlsConfidence ELSE 0),
        MaxConfidence)

\* the confidence of a probe whose requests succeeded: the bound of 100 is
\* applied to base and boost, the TLS confidence is added afterwards
SuccessConfidence(base, server_header, tls_data) ==
    Min(base + confidence_boost(server_header), MaxConfidence)
        + (IF tls_data THEN TlsConfidence ELSE 0)

\* probe_http_service, given how the HEAD and GET requests end ("ok",
\* "no_headers" for a GET answer without headers, or the exception raised),
\* the Server header of the HEAD answer, whether get_tls_info returns data
\* and whether the HEAD request repeated after an SSL error succeeds
probe_http_service(port, answer) ==
    LET after_head == IF answer.head = "ok" THEN HeadConfidence ELSE 0
        head_methods == IF answer.head = "ok" THEN <<"http_head">> ELSE <<>>
        after_get == after_head + (IF answer.get = "ok" THEN GetConfidence ELSE 0)
        get_methods == head_methods \o (IF answer.get = "ok" THEN <<"http_get">> ELSE <<>>)
        raised == IF answer.head # "ok" THEN answer.head
                  ELSE IF answer.get \notin {"ok", "no_headers"} THEN answer.get
                  ELSE "none"
        tls_data == port \in HttpsPorts /\ answer.tls_data
    IN IF raised = "none"
       THEN [confidence |-> SuccessConfidence(after_get, Lower(answer.server), tls_data),
             detection_methods |-> get_methods \o <<"proxy_detection">>
                                     \o (IF tls_data THEN <<"tls_probe">> ELSE <<>>)]
       ELSE IF raised = "SSLError"
       THEN [confidence |-> IF answer.retry_ok THEN SslRetryConfidence ELSE after_head,
             detection_methods |-> head_methods \o <<"http_probe_failed_ssl">>]
       ELSE IF raised = "Timeout"
       THEN [confidence |-> after_head,
             detection_methods |-> head_methods \o <<"http_probe_timeout">>]
       ELSE [confidence |-> after_head,
             detection_methods |-> head_methods \o <<"http_probe_failed">>]

ProbeAnswer(head, get, server, tls_data, retry_ok) ==
    [head |-> head, get |-> get, server |-> server, tls_data |-> tls_data,
     retry_ok |-> retry_ok]

\* the answers a probed service can give
ProbeInputs ==
    { ProbeAnswer(head, get, server, tls_data, retry_ok) :
        head \in {"ok", "SSLError", "Timeout", "ConnectionError"},
        get \in {"ok", "no_headers", "SSLError", "Timeout"},
        server \in {EmptyStr, <<"n","g","i","n","x","/","1",".","1","8",".","0">>, <<"o","p","e","n","r","e","s","t","y","/","1",".","1","9",".","3",".","1">>,
                    <<"A","p","a","c","h","e","/","2",".","4",".","4","1"," ","(","U","b","u","n","t","u",")"," ","n","g","i","n","x">>},
        tls_data \in BOOLEAN, retry_ok \in BOOLEAN }

\* the results of the probe of one port during a scan
ProbeAnswers(port) ==
    { probe_http_service(port, ProbeAnswer("ok", "ok", <<"n","g","i","n","x","/","1",".","1","8",".","0">>, FALSE, FALSE)),
      probe_http_service(port, ProbeAnswer("Timeout", "ok", EmptyStr, FALSE, FALSE)) }

(***************************************************************************)
(* services/scan_service.py: perform_network_scan.                         *)
(***************************************************************************)
\* the ports on which the HTTP verification runs
WebPorts == {80, 443, 8000, 8080, 8443, 3000, 5000, 9000}

\* the confidence of an entry without probe data
DefaultConfidence == 50

\* the keyword arguments of the call of fetch_cves_for_service
lookup_keywords == {"require_version"}

ServerLacksVersion ==
    <<"S","e","r","v","e","r"," ","h","e","a","d","e","r"," ","l","a","c","k","s"," ","v","e","r","s","i","o","n","."," ","C","V","E"," ","l","o","o","k","u","p"," ","s","k","i","p","p","e","d"," ","t","o"," ","a","v","o","i","d"," ","f","a","l","s","e"," ","p","o","s","i","t","i","v","e","s","."," ","C","o","n","s","i","d","e","r"," ","a","u","t","h","e","n","t","i","c","a","t","e","d"," ","s","c","a","n"," ","o","r"," ","m","a","n","u","a","l"," ","v","e","r","i","f","i","c","a","t","i","o","n",".">>
NothingDetected ==
    <<"S","e","r","v","i","c","e"," ","d","e","t","e","c","t","e","d"," ","b","u","t"," ","p","r","o","d","u","c","t","/","v","e","r","s","i","o","n"," ","c","o","u","l","d"," ","n","o","t"," ","b","e"," ","d","e","t","e","r","m","i","n","e","d","."," ","C","V","E"," ","l","o","o","k","u","p"," ","s","k","i","p","p","e","d"," ","t","o"," ","p","r","e","v","e","n","t"," ","f","a","l","s","e"," ","p","o","s","i","t","i","v","e","s",".">>
VersionUnknown(search_service_name) ==
    <<"P","r","o","d","u","c","t"," ","'">> \o search_service_name
      \o <<"'"," ","d","e","t","e","c","t","e","d"," ","b","u","t"," ","v","e","r","s","i","o","n"," ","u","n","k","n","o","w","n","."," ","C","V","E"," ","l","o","o","k","u","p"," ","s","k","i","p","p","e","d"," ","t","o"," ","p","r","e","v","e","n","t"," ","f","a","l","s","e"," ","p","o","s","i","t","i","v","e","s","."," ","R","u","n"," ","a","u","t","h","e","n","t","i","c","a","t","e","d"," ","s","c","a","n"," ","o","r"," ","c","h","e","c","k"," ","s","e","r","v","e","r"," ","c","o","n","f","i","g","u","r","a","t","i","o","n"," ","f","o","r"," ","p","r","e","c","i","s","e"," ","v","e","r","s","i","o","n",".">>

\* x in xs  for a list
InList(xs, x) == \E i \in 1..Len(xs) : xs[i] = x

\* product/version decision of an inspected port; search_version None is
\* the empty string
WebDecision(service_name, product, version_str, ev) ==
    IF ev.product # EmptyStr /\ ev.version # EmptyStr
    THEN [search_service_name |-> ev.product, search_version |-> ev.version,
          display_version |-> ev.product \o <<" ">> \o ev.version,
          status |-> "vulnerable", recommendations |-> <<>>]
    ELSE IF ev.product # EmptyStr
    THEN IF version_str # EmptyStr /\ Lower(version_str) # Unknown
         THEN [search_service_name |-> ev.product, search_version |-> version_str,
               display_version |-> ev.product \o <<" ">> \o version_str \o <<" ","(","n","m","a","p",")">>,
               status |-> "vulnerable", recommendations |-> <<>>]
         ELSE [search_service_name |-> ev.product, search_version |-> EmptyStr,
               display_version |-> ev.product \o <<" ","(","v","e","r","s","i","o","n"," ","u","n","k","n","o","w","n",")">>,
               status |-> "unconfirmed", recommendations |-> <<ServerLacksVersion>>]
    ELSE IF product # EmptyStr /\ version_str # EmptyStr
    THEN [search_service_name |-> product, search_version |-> version_str,
          display_version |-> product \o <<" ">> \o version_str,
          status |-> "vulnerable", recommendations |-> <<>>]
    ELSE [search_service_name |-> service_name, search_version |-> EmptyStr,
          display_version |-> Unknown,
          status |-> "info", recommendations |-> <<NothingDetected>>]

\* a variant that looks CVEs up for a product without version as well
has_version_any(search_version) == TRUE

\* has_version = search_version and search_version.lower() != "unknown"
has_version(search_version) ==
    search_version # EmptyStr /\ Lower(search_version) # Unknown

\* the call  fetch_cves_for_service(name, version, require_version=True):
\* a keyword that is no parameter raises TypeError before the body runs;
\* the list the fetcher returns has no  get
LookupException ==
    IF ~(lookup_keywords \subseteq fetch_parameters) THEN "TypeError" ELSE "AttributeError"

\* a variant whose handler names the network errors only
lookup_except_requests_only == <<"RequestException">>

\* the except clauses around the lookup of one port
lookup_except == <<"Exception">>

\* try: fetch_cves_for_service(...) ... except Exception: the exception of
\* the call becomes one inline error record; an exception no clause names
\* leaves the loop
CveLookup(search_service_name, search_version) ==
    IF \E i \in 1..Len(lookup_except) :
           lookup_except[i] \in ExceptionBases[LookupException]
    THEN [aborted |-> FALSE, cves |-> << [error |-> "Could not fetch CVEs"] >>]
    ELSE [aborted |-> TRUE, cves |-> <<>>]

\* one iteration of the loop over tcp_ports: the report entry of the port,
\* whether it was probed, and the lookup made for it
PortEntry(host, port, port_info, answer, probe) ==
    LET port_state == port_info.state
        service_name == port_info.name
        product == Strip(port_info.product)
        version_str == Strip(port_info.version)
        inspected == port_state = "open" /\ port \in WebPorts
        ev == IF inspected THEN inspect_http_service(port, answer) ELSE NoHttpEvidence
        d == IF inspected
             THEN WebDecision(service_name, product, version_str, ev)
             ELSE [search_service_name |-> IF product # EmptyStr THEN product
                                           ELSE service_name,
                   search_version |-> IF version_str # EmptyStr THEN version_str
                                      ELSE Unknown,
                   display_version |->
                       IF Strip(product \o <<" ">> \o version_str) # EmptyStr
                       THEN Strip(product \o <<" ">> \o version_str) ELSE Unknown,
                   status |-> "info", recommendations |-> <<>>]
        recs == d.recommendations \o ev.recommendations
        gated == port_state = "open" /\ Lower(d.search_service_name) # Unknown
        looked_up == gated /\ has_version(d.search_version)
        lookup == CveLookup(d.search_service_name, d.search_version)
        skipped == gated /\ ~has_version(d.search_version)
    IN [entry |->
           [host |-> host, port |-> port, state |-> port_state, service |-> service_name,
            version |-> d.display_version,
            cves |-> IF looked_up THEN lookup.cves ELSE <<>>,
            confidence |-> IF inspected THEN probe.confidence ELSE DefaultConfidence,
            status |-> IF skipped THEN "unconfirmed" ELSE d.status,
            recommendations |->
                IF skipped /\ ~InList(recs, <<"S","e","r","v","e","r"," ","d","e","t","e","c","t","e","d"," ","b","u","t"," ","v","e","r","s","i","o","n"," ","u","n","k","n","o","w","n">>)
                THEN Append(recs, VersionUnknown(d.search_service_name))
                ELSE recs],
        probed |-> inspected,
        skipped |-> skipped,
        looked_up |-> looked_up,
        aborted |-> looked_up /\ lookup.aborted,
        lookup |-> [host |-> host, port |-> port,
                    service_name |-> d.search_service_name,
                    version |-> d.search_version,
                    keywords |-> lookup_keywords,
                    exception |-> LookupException,
                    service_info |-> NoneArg, evidence |-> NoneArg],
        evidence |-> ev]

(***************************************************************************)
(* The scanner's report, revealed host by host and port by port, and the   *)
(* answers of the HTTP probes.                                             *)
(***************************************************************************)
\* how many port entries the scanner reports over all hosts
MaxPortEntries == 2

\* the hosts the scanner can report, in the order of all_hosts()
ScanHosts == <<"10.0.0.1", "10.0.0.2">>

Ports == {22, 80}

PortInfo(state, name, product, version) ==
    [state |-> state, name |-> name, product |-> product, version |-> version]

PortInfos ==
    { PortInfo("open", <<"s","s","h">>, <<"O","p","e","n","S","S","H">>, <<"8",".","9">>),
      PortInfo("open", <<"h","t","t","p">>, EmptyStr, EmptyStr),
      PortInfo("open", <<"h","t","t","p">>, <<"n","g","i","n","x">>, <<"1",".","1","8",".","0">>),
      PortInfo("open", Unknown, EmptyStr, EmptyStr),
      PortInfo("closed", <<"h","t","t","p">>, <<"n","g","i","n","x">>, <<"1",".","1","8",".","0">>),
      PortInfo("filtered", <<"s","s","h">>, EmptyStr, EmptyStr) }

HttpAnswer(success, server) ==
    [success |-> success, server |-> server, redirect_to_https |-> FALSE,
     tls_success |-> FALSE, cert_valid |-> FALSE, cert_expired |-> FALSE]

HttpAnswers ==
    { HttpAnswer(FALSE, EmptyStr),
      HttpAnswer(TRUE, <<"n","g","i","n","x","/","1",".","1","8",".","0">>),
      HttpAnswer(TRUE, <<"n","g","i","n","x">>) }

\* the hostnames the scanner can report for each host of ScanHosts
HostnameLists == << { <<>>, <<"router.lan">> }, { <<>>, <<"nas.lan">> } >>

PROFILE_EXTRA_SCRIPTS ==
    [p \in {<<"w","e","b","-","a","p","p","s">>, <<"d","a","t","a","b","a","s","e","s">>, <<"r","e","m","o","t","e","-","a","c","c","e","s","s">>, <<"c","o","m","p","r","e","h","e","n","s","i","v","e">>} |->
        IF p = <<"w","e","b","-","a","p","p","s">> THEN <<"h","t","t","p","-","e","n","u","m",",","h","t","t","p","-","h","e","a","d","e","r","s",",","h","t","t","p","-","t","i","t","l","e",",","s","s","l","-","c","e","r","t",",","b","a","n","n","e","r">>
        ELSE IF p = <<"d","a","t","a","b","a","s","e","s">> THEN <<"b","r","o","a","d","c","a","s","t","-","s","q","l","-","b","r","u","t","e",",","b","a","n","n","e","r",",","s","s","l","-","c","e","r","t">>
        ELSE IF p = <<"r","e","m","o","t","e","-","a","c","c","e","s","s">>
        THEN <<"s","s","h","-","h","o","s","t","k","e","y",",","s","s","h","v","1",",","r","d","p","-","e","n","u","m","-","e","n","c","r","y","p","t","i","o","n",",","b","a","n","n","e","r",",","s","s","l","-","c","e","r","t">>
        ELSE <<"h","t","t","p","-","e","n","u","m",",","h","t","t","p","-","h","e","a","d","e","r","s",",","h","t","t","p","-","t","i","t","l","e",",","s","s","l","-","c","e","r","t",",","b","a","n","n","e","r",",","s","s","h","-","h","o","s","t","k","e","y",",","d","e","f","a","u","l","t",",","s","a","f","e">>]

\* the calls of perform_network_scan: the target is the normalized target
\* the route passes
ScanRequests ==
    { [ip_address |-> <<"1","0",".","0",".","0",".","1">>, nmap_args |-> <<"-","T","4">>,
       scan_profile |-> <<"b","a","s","i","c">>, follow_up |-> FALSE],
      [ip_address |-> <<"1","0",".","0",".","0",".","0","/","2","4">>, nmap_args |-> <<"-","T","4">>,
       scan_profile |-> <<"w","e","b","-","a","p","p","s">>, follow_up |-> TRUE],
      [ip_address |-> <<"1","0",".","0",".","0",".","1">>, nmap_args |-> <<"-","s","V"," ","-","-","s","c","r","i","p","t"," ","b","a","n","n","e","r">>,
       scan_profile |-> <<"w","e","b","-","a","p","p","s">>, follow_up |-> TRUE] }

\* nmap_args as perform_network_scan hands them to nm.scan:
\* build_lan_aware_nmap_args returns them as they are, a follow-up scan adds
\* the scripts of its profile
ScanArguments ==
    IF follow_up /\ scan_args.scan_profile \in DOMAIN PROFILE_EXTRA_SCRIPTS
         /\ ~Contains(scan_args.nmap_args, <<"-","-","s","c","r","i","p","t">>)
    THEN scan_args.nmap_args \o <<" ","-","-","s","c","r","i","p","t"," ">> \o PROFILE_EXTRA_SCRIPTS[scan_args.scan_profile]
    ELSE scan_args.nmap_args

\* the call  nm.scan(hosts=hosts_arg, arguments=nmap_args)
ScanCall == [hosts |-> Strip(scan_args.ip_address), arguments |-> ScanArguments]

\* full_command
full_command(call_made) == <<"n","m","a","p"," ">> \o call_made.arguments \o <<" ">> \o call_made.hosts

\* what PortScanner() and nm.scan can raise, with the text of str(e)
ScannerExceptions ==
    [PortScannerError |-> [bases |-> {"PortScannerError", "Exception"},
                           message |-> "nmap program was not found in path"],
     PermissionError |-> [bases |-> {"PermissionError", "OSError", "Exception"},
                          message |-> "Operation not permitted"]]

InitScan ==
    /\ MatchIdle /\ TargetIdle /\ FetchIdle /\ CallIdle
    /\ scan_pc = "start"
    /\ \E request \in ScanRequests :
          /\ follow_up = request.follow_up
          /\ scan_args = [ip_address |-> request.ip_address,
                          nmap_args |-> request.nmap_args,
                          scan_profile |-> request.scan_profile]
    /\ scanned = <<>>
    /\ scan_host = 0
    /\ host_info = [hostnames |-> <<>>]
    /\ host_data = [hostnames |-> <<>>]
    /\ results = <<>>
    /\ probes = <<>>
    /\ lookups = <<>>
    /\ nmap_calls = <<>>
    /\ scan_return = NoReturn

\* the return value with its "error" key
ScanError(error, nmap_cmd) ==
    [returned |-> TRUE, raised |-> FALSE, results |-> <<>>, error |-> error,
     nmap_cmd |-> nmap_cmd]

\* a variant whose handler names the scanner's own error only
outer_except_scanner_only == <<"PortScannerError">>

\* the except clauses of perform_network_scan
outer_except == <<"PortScannerError", "Exception">>

\* except ...: return the error with  f"nmap {nmap_args} {ip_address}" ; an
\* exception no clause names leaves the function
HandleScanException(bases, message, nmap_args) ==
    IF \E i \in 1..Len(outer_except) : outer_except[i] \in bases
    THEN ScanError(message, <<"n","m","a","p"," ">> \o nmap_args \o <<" ">> \o scan_args.ip_address)
    ELSE [returned |-> FALSE, raised |-> TRUE, results |-> <<>>, error |-> message,
          nmap_cmd |-> EmptyStr]

\* PortScanner() raises before the arguments are built, or nm.scan raises
ScanFails ==
    /\ scan_pc = "start"
    /\ \E exc \in DOMAIN ScannerExceptions, at \in {"PortScanner", "scan"} :
          /\ nmap_calls' = IF at = "scan" THEN Append(nmap_calls, ScanCall) ELSE nmap_calls
          /\ scan_return' =
                HandleScanException(ScannerExceptions[exc].bases,
                                    ScannerExceptions[exc].message,
                                    IF at = "scan" THEN ScanArguments
                                    ELSE scan_args.nmap_args)
    /\ scan_pc' = "failed"
    /\ UNCHANGED <<follow_up, scanned, scan_host, host_info, results, probes, lookups,
                   scan_args, host_data, match_vars, target_vars, fetch_vars, call_vars>>

\* all_hosts() is empty
ScanFindsNoHost ==
    /\ scan_pc = "start"
    /\ nmap_calls' = Append(nmap_calls, ScanCall)
    /\ scan_return' = ScanError("Host not found or not scannable.", full_command(ScanCall))
    /\ scan_pc' = "done"
    /\ UNCHANGED <<follow_up, scanned, scan_host, host_info, results, probes, lookups,
                   scan_args, host_data, match_vars, target_vars, fetch_vars, call_vars>>

\* the next host of hosts_list (the first one right after nm.scan); the
\* host metadata is taken from the first host of a scan that is no follow-up
NextHost ==
    /\ scan_pc \in {"start", "ports"}
    /\ scan_host < Len(ScanHosts)
    /\ scan_host' = scan_host + 1
    /\ nmap_calls' = IF scan_pc = "start" THEN Append(nmap_calls, ScanCall) ELSE nmap_calls
    /\ \E hostnames \in HostnameLists[scan_host + 1] :
          /\ host_data' = [hostnames |-> hostnames]
          /\ host_info' = IF ~follow_up /\ scan_host = 0 /\ hostnames # <<>>
                          THEN [hostnames |-> hostnames]
                          ELSE host_info
    /\ scan_pc' = "ports"
    /\ UNCHANGED <<follow_up, scanned, results, probes, lookups, scan_return,
                   scan_args, match_vars, target_vars, fetch_vars, call_vars>>

\* one iteration of  for port, port_info in tcp_ports.items()
ProcessPort ==
    /\ scan_pc = "ports"
    /\ Len(scanned) < MaxPortEntries
    /\ \E port \in Ports, port_info \in PortInfos, answer \in HttpAnswers :
       \E probe \in ProbeAnswers(port) :
          /\ ~\E i \in 1..Len(scanned) :
                 scanned[i].host = ScanHosts[scan_host] /\ scanned[i].port = port
          /\ \E r \in { PortEntry(ScanHosts[scan_host], port, port_info, answer, probe) } :
                /\ scanned' = Append(scanned, [host |-> ScanHosts[scan_host], port |-> port,
                                                port_info |-> port_info,
                                                evidence |-> r.evidence,
                                                search_service_name |-> r.lookup.service_name,
                                                search_version |-> r.lookup.version,
                                                skipped |-> r.skipped,
                                                looked_up |-> r.looked_up])
                /\ probes' = IF r.probed
                             THEN Append(probes,
                                         [host |-> ScanHosts[scan_host], port |-> port,
                                          own_hostnames |-> host_data.hostnames,
                                          hostname |-> IF host_info.hostnames # <<>>
                                                       THEN host_info.hostnames[1]
                                                       ELSE ScanHosts[scan_host]])
                             ELSE probes
                /\ lookups' = IF r.looked_up THEN Append(lookups, r.lookup) ELSE lookups
                /\ IF r.aborted
                   THEN /\ scan_return' =
                              HandleScanException(ExceptionBases[r.lookup.exception],
                                                  r.lookup.exception, ScanArguments)
                        /\ scan_pc' = "done"
                        /\ UNCHANGED results
                   ELSE /\ results' = Append(results, r.entry)
                        /\ UNCHANGED <<scan_return, scan_pc>>
    /\ UNCHANGED <<follow_up, scan_host, host_info, scan_args, nmap_calls, host_data,
                   match_vars, target_vars, fetch_vars, call_vars>>

\* the loops are over: the entries of all ports of all hosts are returned
ScanReturn ==
    /\ scan_pc = "ports"
    /\ scan_return' = [returned |-> TRUE, raised |-> FALSE, results |-> results,
                       error |-> "none", nmap_cmd |-> full_command(ScanCall)]
    /\ scan_pc' = "done"
    /\ UNCHANGED <<follow_up, scanned, scan_host, host_info, results, probes, lookups,
                   scan_args, nmap_calls, host_data,
                   match_vars, target_vars, fetch_vars, call_vars>>

NextScan == ScanFails \/ ScanFindsNoHost \/ NextHost \/ ProcessPort \/ ScanReturn

SpecScan == InitScan /\ [][NextScan]_vars

(***************************************************************************)
(* services/banner_utils.py: extract_service_info.                         *)
(***************************************************************************)
\* fingerprint_confidence is int(nmap_service.get("conf", 0))
extract_service_info(nmap_service) ==
    [service_name |-> nmap_service.name,
     banner |-> Strip(nmap_service.product \o <<" ">> \o nmap_service.extrainfo),
     version |-> nmap_service.version,
     product |-> nmap_service.product,
     fingerprint_confidence |-> IF nmap_service.conf = EmptyStr THEN 0
                                ELSE StrToInt(nmap_service.conf)]

\* the services of a scanner report; conf is the scanner's confidence 0..10,
\* the empty string stands for a report without it
NmapServices ==
    { [name |-> name, product |-> product, extrainfo |-> extrainfo, version |-> version,
       conf |-> conf] :
        name \in {<<"h","t","t","p">>, <<"u","p","n","p">>},
        product \in {EmptyStr, <<"n","g","i","n","x">>, <<"M","i","n","i","U","P","n","P">>},
        extrainfo \in {EmptyStr, <<"U","b","u","n","t","u">>},
        version \in {EmptyStr, <<"1",".","1","8",".","0">>},
        conf \in {EmptyStr, <<"0">>, <<"3">>, <<"8">>, <<"1","0">>} }

(***************************************************************************)
(* Calls of the helper functions, one call per behaviour.                  *)
(***************************************************************************)
Candidate(id, description, has_cvss, cvss10) ==
    [id |-> id, title |-> id, description |-> description,
     has_cvss |-> has_cvss, cvss10 |-> cvss10]

\* candidates of every age, with and without a score
AgeScoreCandidates ==
    { Candidate(id, <<"b","u","f","f","e","r"," ","o","v","e","r","f","l","o","w"," ","i","n"," ","p","a","r","s","e","r">>, score[1], score[2]) :
        id \in {<<"C","V","E","-","2","0","1","7","-","0","1","4","4">>, <<"C","V","E","-","2","0","2","1","-","0","0","0","2">>, <<"C","V","E","-","2","0","2","4","-","0","0","0","4">>, <<"G","H","S","A","-","0","0","0","1">>},
        score \in {<<FALSE, 0>>, <<TRUE, 40>>, <<TRUE, 60>>, <<TRUE, 98>>} }

\* candidates about one OS family, about none, and about devices
OsCandidates ==
    { Candidate(<<"C","V","E","-","2","0","2","3","-","0","0","0","1">>, description, TRUE, 75) :
        description \in {<<"W","i","n","d","o","w","s"," ","S","M","B"," ","r","e","m","o","t","e"," ","c","o","d","e"," ","e","x","e","c","u","t","i","o","n">>,
                         <<"L","i","n","u","x"," ","k","e","r","n","e","l"," ","p","r","i","v","i","l","e","g","e"," ","e","s","c","a","l","a","t","i","o","n">>,
                         <<"S","a","f","a","r","i"," ","o","n"," ","m","a","c","O","S"," ","m","e","m","o","r","y"," ","c","o","r","r","u","p","t","i","o","n">>,
                         <<"b","u","f","f","e","r"," ","o","v","e","r","f","l","o","w"," ","i","n"," ","p","a","r","s","e","r">>,
                         <<"r","o","u","t","e","r"," ","f","i","r","m","w","a","r","e"," ","c","o","m","m","a","n","d"," ","i","n","j","e","c","t","i","o","n">>} }

OsNameInputs ==
    {EmptyStr, Unknown, <<"L","i","n","u","x"," ","5",".","4">>, <<"W","i","n","d","o","w","s"," ","1","0">>, <<"m","a","c","O","S"," ","1","4">>, <<"D","a","r","w","i","n"," ","2","2">>}

CandidateLists(candidates) == UNION { [1..n -> candidates] : n \in 1..MaxCandidates }

Calls ==
    { [fn |-> "probe_http_service", port |-> port, answer |-> answer] :
          port \in {80, 443}, answer \in ProbeInputs }
    \cup { [fn |-> "extract_service_info", nmap_service |-> s] : s \in NmapServices }
    \cup { [fn |-> "filter_by_age_and_score", cve_results |-> cs] :
              cs \in CandidateLists(AgeScoreCandidates) }
    \cup { [fn |-> "filter_cves_by_os", os_name |-> os, cve_results |-> cs] :
              os \in OsNameInputs, cs \in CandidateLists(OsCandidates) }

InitCalls ==
    /\ MatchIdle /\ TargetIdle /\ FetchIdle /\ ScanIdle
    /\ call_pc = "called"
    /\ call \in Calls
    /\ ret = [fn |-> "none"]

ProbeHttpService ==
    /\ call_pc = "called"
    /\ call.fn = "probe_http_service"
    /\ ret' = [fn |-> call.fn, value |-> probe_http_service(call.port, call.answer)]
    /\ call_pc' = "returned"
    /\ UNCHANGED <<call, match_vars, target_vars, fetch_vars, scan_vars>>

ExtractServiceInfo ==
    /\ call_pc = "called"
    /\ call.fn = "extract_service_info"
    /\ ret' = [fn |-> call.fn, value |-> extract_service_info(call.nmap_service)]
    /\ call_pc' = "returned"
    /\ UNCHANGED <<call, match_vars, target_vars, fetch_vars, scan_vars>>

FilterByAgeAndScore ==
    /\ call_pc = "called"
    /\ call.fn = "filter_by_age_and_score"
    /\ ret' = [fn |-> call.fn, value |-> filter_by_age_and_score(call.cve_results)]
    /\ call_pc' = "returned"
    /\ UNCHANGED <<call, match_vars, target_vars, fetch_vars, scan_vars>>

FilterCvesByOs ==
    /\ call_pc = "called"
    /\ call.fn = "filter_cves_by_os"
    /\ ret' = [fn |-> call.fn, value |-> filter_cves_by_os(call.os_name, call.cve_results)]
    /\ call_pc' = "returned"
    /\ UNCHANGED <<call, match_vars, target_vars, fetch_vars, scan_vars>>

NextCalls == ProbeHttpService \/ ExtractServiceInfo \/ FilterByAgeAndScore \/ FilterCvesByOs

SpecCalls == InitCalls /\ [][NextCalls]_vars

(***************************************************************************)
(* Properties of normalize_target.                                         *)
(***************************************************************************)
Normalized == target_pc \in {"done", "checked"}
\* the input as the function reads it
Trimmed == Strip(user_input)

IsHostnameResult ==
    /\ ~target_result.raised
    /\ target_result.target_type = "hostname"
    /\ target_result.normalized = Trimmed
    /\ ~target_result.hosts_known

\* every dot-separated label is 1-63 characters of letters, digits and
\* hyphens, and the whole string is at most 253 characters
HostnameGrammar(s) ==
    /\ Len(s) >= 1 /\ Len(s) <= 253
    /\ \A i \in 1..Len(Split(s, ".")) :
          LET l == Split(s, ".")[i]
          IN /\ Len(l) >= 1 /\ Len(l) <= 63
             /\ \A k \in 1..Len(l) : l[k] \in AlnumChars \cup {"-"}

\* a.b.c.d-w.x.y.z or a.b.c.d-N: two parts, the first an IP address
RangeShaped(s) ==
    /\ Len(Split(s, "-")) = 2
    /\ ip_address(Strip(Split(s, "-")[1])) # "invalid"

\* C8 as stated: a string that is not an IP, a CIDR or a range and follows the
\* hostname grammar (hyphens included) is accepted as a hostname, unchanged,
\* with hosts_count None.
C8_HostnameGrammarAccepted ==
    ( /\ Normalized
      /\ ip_address(Trimmed) = "invalid"
      /\ ~HasChar(Trimmed, "/")
      /\ ~RangeShaped(Trimmed)
      /\ HostnameGrammar(Trimmed) )
        => IsHostnameResult

\* all labels are decimal numbers, as in 999.999.999.999
NumericDotted(s) ==
    /\ HasChar(s, ".")
    /\ \A i \in 1..Len(Split(s, ".")) : IsDigitStr(Split(s, ".")[i])

\* C9 as stated: a dotted string that looks like an IP address but is not a
\* valid one (999.999.999.999, not.an.ip) raises the invalid-target error.
C9_InvalidDottedRaises ==
    ( /\ Normalized
      /\ NumericDotted(Trimmed) \/ Trimmed = <<"n","o","t",".","a","n",".","i","p">>
      /\ ip_address(Trimmed) = "invalid" )
        => target_result.raised

LastOctetZero(s) == IsIPv4(s) /\ StrToInt(Split(s, ".")[4]) = 0

\* C10: a bare IPv4 literal whose last octet is 0 becomes "<literal>/24" with
\* 256 hosts, type cidr and exactly one warning, which mentions 256; any other
\* valid bare IP literal is returned unchanged with 1 host, type single_ip and
\* no warning.
C10_BareIp ==
    Normalized =>
        /\ LastOctetZero(Trimmed) =>
              /\ ~target_result.raised
              /\ target_result.normalized = Trimmed \o <<"/","2","4">>
              /\ target_result.hosts_known /\ target_result.hosts_count = 256
              /\ target_result.target_type = "cidr"
              /\ Len(target_result.warnings) = 1
              /\ Contains(target_result.warnings[1], <<"2","5","6">>)
        /\ (ip_address(Trimmed) # "invalid" /\ ~LastOctetZero(Trimmed)) =>
              /\ ~target_result.raised
              /\ target_result.normalized = Trimmed
              /\ target_result.hosts_known /\ target_result.hosts_count = 1
              /\ target_result.target_type = "single_ip"
              /\ target_result.warnings = <<>>

\* the network address of test_network_boundary has been normalized
C10_Witness ==
    /\ Normalized
    /\ Trimmed = <<"1","0",".","0",".","0",".","0">>
    /\ target_result.normalized = <<"1","0",".","0",".","0",".","0","/","2","4">>
    /\ target_result.target_type = "cidr"

(***************************************************************************)
(* Properties of ranges, size warnings and validate_target_safety.         *)
(***************************************************************************)
\* the two sides of a range a-b, each without surrounding blanks
RangeStart(s) == Strip(Split(s, "-")[1])
RangeEnd(s) == Strip(Split(s, "-")[2])

TwoParts(s) == ~HasChar(s, "/") /\ Len(Split(s, "-")) = 2

\* a.b.c.d-w.x.y.z with both sides valid addresses
FullFormRange(s) ==
    /\ TwoParts(s)
    /\ ip_address(RangeStart(s)) # "invalid"
    /\ ip_address(RangeEnd(s)) # "invalid"

\* a.b.c.d-N with N an octet
ShortFormRange(s) ==
    /\ TwoParts(s)
    /\ IsIPv4(RangeStart(s))
    /\ ValidOctet(RangeEnd(s))

\* the value of the start address of a range
StartValue(s) == IpInt(RangeStart(s))
\* the value of the end address: N replaces the last octet in the short form
EndValue(s) ==
    IF ShortFormRange(s)
    THEN StartValue(s) - OctetsOf(RangeStart(s))[4] + StrToInt(RangeEnd(s))
    ELSE IpInt(RangeEnd(s))

SameFamily(s) == ip_address(RangeStart(s)) = ip_address(RangeEnd(s))

\* C11: an IP range with start < end, in full form (a.b.c.d-w.x.y.z) or in
\* short form (a.b.c.d-N), is returned with target_type "range", normalized
\* equal to the trimmed input and hosts_count = end - start + 1.
C11_RangeAccepted ==
    ( /\ Normalized
      /\ \/ FullFormRange(Trimmed) /\ SameFamily(Trimmed)
         \/ ShortFormRange(Trimmed)
      /\ StartValue(Trimmed) < EndValue(Trimmed) )
        => /\ ~target_result.raised
           /\ target_result.target_type = "range"
           /\ target_result.normalized = Trimmed
           /\ target_result.hosts_known
           /\ target_result.hosts_count = EndValue(Trimmed) - StartValue(Trimmed) + 1

\* the short range of test_range_short_form, surrounded by blanks
C11_Witness ==
    /\ Normalized
    /\ user_input = <<" ","1","0",".","0",".","0",".","1","0","-","2","0"," ">>
    /\ target_result.target_type = "range"
    /\ target_result.normalized = <<"1","0",".","0",".","0",".","1","0","-","2","0">>
    /\ target_result.hosts_count = 11

\* C12: a range whose start is greater than or equal to its end, a range
\* with other than two parts, and a range whose ends differ in address
\* family raise the invalid-target error, and nothing is returned.
C12_BadRangeRaises ==
    ( /\ Normalized
      /\ HasChar(Trimmed, "-")
      /\ \/ Len(Split(Trimmed, "-")) # 2
         \/ FullFormRange(Trimmed) /\ ~SameFamily(Trimmed)
         \/ /\ (FullFormRange(Trimmed) /\ SameFamily(Trimmed)) \/ ShortFormRange(Trimmed)
            /\ StartValue(Trimmed) >= EndValue(Trimmed) )
        => /\ target_result.raised
           /\ target_result.error \in {"invalid_range_format", "invalid_range"}
           /\ target_result.target_type = "none"
           /\ target_result.normalized = EmptyStr

\* the range of a single host of test_range_single_host has been refused
C12_Witness ==
    /\ Normalized
    /\ Trimmed = <<"1","0",".","0",".","0",".","1","0","-","1","0",".","0",".","0",".","1","0">>
    /\ target_result.raised
    /\ target_result.error = "invalid_range"

StartsWith(s, prefix) ==
    Len(s) >= Len(prefix) /\ SubSeq(s, 1, Len(prefix)) = prefix

\* how many of the warnings begin with the given words
WarningCount(prefix) ==
    Cardinality({ i \in 1..Len(target_result.warnings) :
                     StartsWith(target_result.warnings[i], prefix) })

\* C13: a CIDR or range target carries exactly one "Large scan" warning when
\* hosts_count > 1024, exactly one "Medium scan" warning when
\* 257 <= hosts_count <= 1024, no size warning when hosts_count <= 256, and
\* never both warnings.
C13_SizeWarnings ==
    ( /\ Normalized
      /\ ~target_result.raised
      /\ target_result.target_type \in {"cidr", "range"} )
        => LET n == target_result.hosts_count
               large == WarningCount(<<"L","a","r","g","e"," ","s","c","a","n">>)
               medium == WarningCount(<<"M","e","d","i","u","m"," ","s","c","a","n">>)
           IN /\ target_result.hosts_known
              /\ n > 1024 => (large = 1 /\ medium = 0)
              /\ (257 <= n /\ n <= 1024) => (medium = 1 /\ large = 0)
              /\ n <= 256 => (large = 0 /\ medium = 0)

\* a network of exactly 1024 hosts carries the medium warning
C13_Witness ==
    /\ Normalized
    /\ Trimmed = <<"1","0",".","0",".","0",".","0","/","2","2">>
    /\ target_result.hosts_count = 1024
    /\ target_result.warnings = << <<"M","e","d","i","u","m"," ","s","c","a","n",":"," ","1","0","2","4"," ","h","o","s","t","s",".">> >>

SafetyChecked == target_pc = "checked"

\* C14: validate_target_safety answers is_safe = False, with a message that
\* asks for confirmation, exactly when hosts_count is known and exceeds
\* max_hosts; otherwise, and for every hostname, it answers (True, None).
C14_SafetyThreshold ==
    SafetyChecked =>
        /\ ~target_safety.is_safe <=>
              (target_result.hosts_known /\ target_result.hosts_count > max_hosts)
        /\ ~target_safety.is_safe =>
              /\ target_safety.has_message
              /\ Contains(target_safety.message, <<"r","e","q","u","i","r","e","s"," ","c","o","n","f","i","r","m","a","t","i","o","n">>)
        /\ target_safety.is_safe => ~target_safety.has_message
        /\ target_result.target_type = "hostname" => target_safety.is_safe

\* the /16 of test_unsafe_large_network has been refused at the default limit
C14_Witness ==
    /\ SafetyChecked
    /\ Trimmed = <<"1","0",".","0",".","0",".","0","/","1","6">>
    /\ max_hosts = 1024
    /\ ~target_safety.is_safe
    /\ target_safety.has_message

(***************************************************************************)
(* Properties of fetch_cves_for_service.                                   *)
(***************************************************************************)
Fetched == fetch_pc = "done"

\* C15 as stated: with an empty or "unknown" version the fetcher returns the
\* empty list and sends no query to the API, for every service name, a name
\* in which a vendor is detected included.
C15_NoVersionNoQuery ==
    ( /\ Fetched
      /\ fetch_args.version = EmptyStr \/ fetch_args.version = <<"u","n","k","n","o","w","n">> )
        => /\ ~fetch_result.raised
           /\ fetch_result.value = <<>>
           /\ nvd_queries = <<>>

IsErrorRecord(r) == DOMAIN r = {"error"}

\* C19: fetch_cves_for_service never raises; when the request times out,
\* fails in transport or with an HTTP error, or the payload is malformed, it
\* returns the empty list or one error record, and saves nothing.
C19_FetchNeverRaises ==
    Fetched =>
        /\ ~fetch_result.raised
        /\ nvd_answer \notin {"none", "ok"} =>
              /\ \/ fetch_result.value = <<>>
                 \/ /\ Len(fetch_result.value) = 1
                    /\ IsErrorRecord(fetch_result.value[1])
              /\ store = {}

\* a payload that is not JSON has been answered by one error record
C19_Witness ==
    /\ Fetched
    /\ nvd_answer = "ValueError"
    /\ supabase
    /\ fetch_result = [raised |-> FALSE, value |-> << [error |-> "Unexpected error"] >>]
    /\ store = {}

\* service_info and evidence are both supplied (and hold something)
ObservationSupplied ==
    fetch_args.service_info.kind = "given" /\ fetch_args.evidence.kind = "given"

\* C20: one fetch applies exactly one filtering path to the raw candidates,
\* never both: the strict evidence procedure when an observation and
\* evidence are supplied, otherwise the legacy chain in the order
\* cross-vendor exclusion, vendor inclusion, keyword blacklist, age/score
\* gate, OS gate.
C20_OneFilteringPath ==
    (Fetched /\ nvd_answer = "ok") =>
        IF ObservationSupplied
        THEN fetch_log = <<"strict_match_cve_to_evidence">>
        ELSE fetch_log = <<"exclude_unrelated_router_cves", "filter_cves_by_vendor",
                           "exclude_unrelated_cves", "filter_by_age_and_score",
                           "filter_cves_by_os">>

\* a fetch with observation and evidence has kept the Apache candidate by
\* the strict procedure alone
C20_Witness ==
    /\ Fetched
    /\ nvd_answer = "ok"
    /\ ObservationSupplied
    /\ fetch_log = <<"strict_match_cve_to_evidence">>
    /\ Len(fetch_result.value) = 1
    /\ fetch_result.value[1].id = <<"C","V","E","-","2","0","2","1","-","0","0","0","2">>

(***************************************************************************)
(* perform_network_scan                                                    *)
(***************************************************************************)
\* the lookup made for the i-th port of the report, if any
LookedUp(i) ==
    \E k \in 1..Len(lookups) :
        lookups[k].host = scanned[i].host /\ lookups[k].port = scanned[i].port

Probed(i) ==
    \E k \in 1..Len(probes) :
        probes[k].host = scanned[i].host /\ probes[k].port = scanned[i].port

\* the versions the HTTP evidence and the scanner give for the i-th port
KnownVersions(i) ==
    {scanned[i].evidence.version, Strip(scanned[i].port_info.version)}
        \ {EmptyStr, Unknown}

KnownService(i) == Lower(scanned[i].search_service_name) # Unknown

SaysLookupSkipped(entry) ==
    \E k \in 1..Len(entry.recommendations) :
        Contains(entry.recommendations[k], <<"C","V","E"," ","l","o","o","k","u","p"," ","s","k","i","p","p","e","d">>)

\* C16: the fetcher is called for a port only if the port is open, the
\* search service name is not "unknown" and a version other than empty or
\* "unknown" is known from the HTTP evidence or the scanner; an open port
\* with a known service that is skipped for lack of a version has an empty
\* CVE list and a recommendation saying that the CVE lookup was skipped;
\* closed and filtered ports are neither probed nor looked up.
C16_GatedLookup ==
    \A i \in 1..Len(scanned) :
        /\ LookedUp(i) =>
              /\ scanned[i].port_info.state = "open"
              /\ KnownService(i)
              /\ scanned[i].search_version \in KnownVersions(i)
              /\ Lower(scanned[i].search_version) # Unknown
        /\ (scanned[i].port_info.state = "open" /\ KnownService(i) /\ ~LookedUp(i)
              /\ i <= Len(results)) =>
              /\ results[i].cves = <<>>
              /\ SaysLookupSkipped(results[i])
        /\ scanned[i].port_info.state # "open" => ~LookedUp(i) /\ ~Probed(i)

\* a returned scan of two ports: one open with a version and looked up, one
\* open with a known service, no version, and the skip recommendation
C16_Witness ==
    /\ scan_return.returned
    /\ Len(scan_return.results) = 2
    /\ \E i, j \in 1..2 :
          /\ LookedUp(i)
          /\ scanned[j].port_info.state = "open" /\ KnownService(j) /\ ~LookedUp(j)
          /\ scan_return.results[j].cves = <<>>
          /\ SaysLookupSkipped(scan_return.results[j])

\* the i-th port is an open web port whose HTTP evidence names product and
\* version
HasHttpEvidence(i) ==
    /\ scanned[i].port_info.state = "open"
    /\ scanned[i].port \in WebPorts
    /\ scanned[i].evidence.collected
    /\ scanned[i].evidence.product # EmptyStr
    /\ scanned[i].evidence.version # EmptyStr

\* C17: for an open web port with evidence and a known version the scan has
\* the candidates filtered by the strict evidence procedure: the fetcher is
\* called with the port's observation and evidence and returns its list.
C17_StrictFiltering ==
    \A i \in 1..Len(scanned) :
        HasHttpEvidence(i) =>
            \E k \in 1..Len(lookups) :
                /\ lookups[k].host = scanned[i].host
                /\ lookups[k].port = scanned[i].port
                /\ Truthy(lookups[k].service_info)
                /\ Truthy(lookups[k].evidence)
                /\ lookups[k].keywords \subseteq fetch_parameters

\* the lookup of the i-th port raised
LookupFailed(i) ==
    \E k \in 1..Len(lookups) :
        /\ lookups[k].host = scanned[i].host
        /\ lookups[k].port = scanned[i].port
        /\ lookups[k].exception # "none"

\* C18: a failed CVE lookup of one port never ends the scan: the entry of
\* that port holds one inline error record as its cves, and the scan
\* returns an entry for every port of every host.
C18_LookupFailureIsLocal ==
    /\ \A i \in 1..Len(scanned) :
          LookupFailed(i) =>
              /\ i <= Len(results)
              /\ Len(results[i].cves) = 1
              /\ IsErrorRecord(results[i].cves[1])
    /\ (scan_return.returned /\ scan_host > 0) =>
          /\ scan_return.error = "none"
          /\ Len(scan_return.results) = Len(scanned)
          /\ \A i \in 1..Len(scanned) :
                /\ scan_return.results[i].host = scanned[i].host
                /\ scan_return.results[i].port = scanned[i].port

\* a returned scan of two hosts: the lookup of the first host's port failed
\* and the port of the second host still has its entry
C18_Witness ==
    /\ scan_return.returned
    /\ Len(scanned) = 2
    /\ LookupFailed(1)
    /\ IsErrorRecord(scan_return.results[1].cves[1])
    /\ scan_return.results[1].host = ScanHosts[1]
    /\ scan_return.results[2].host = ScanHosts[2]

\* C21: when the port scanner fails, perform_network_scan returns (it does
\* not raise) a report with no results, the error text and the nmap command
\* of the one call of nm.scan it made; the scan is not tried again.
C21_ScannerFailureReported ==
    scan_pc = "failed" =>
        /\ scan_return.returned
        /\ ~scan_return.raised
        /\ scan_return.results = <<>>
        /\ \E exc \in DOMAIN ScannerExceptions :
              scan_return.error = ScannerExceptions[exc].message
        /\ Len(nmap_calls) <= 1
        /\ Len(nmap_calls) = 1 => scan_return.nmap_cmd = full_command(nmap_calls[1])

\* nm.scan of a follow-up scan failed on a permission error; the report
\* names the command with the scripts of the profile
C21_Witness ==
    /\ scan_pc = "failed"
    /\ follow_up
    /\ Len(nmap_calls) = 1
    /\ scan_return.returned
    /\ scan_return.error = "Operation not permitted"
    /\ scan_return.nmap_cmd =
          <<"n","m","a","p"," ","-","T","4"," ","-","-","s","c","r","i","p","t"," ","h","t","t","p","-","e","n","u","m",",","h","t","t","p","-","h","e","a","d","e","r","s",",","h","t","t","p","-","t","i","t","l","e",",","s","s","l","-","c","e","r","t",",","b","a","n","n","e","r"," ","1","0",".","0",".","0",".","0","/","2","4">>

\* C28: the hostname used for the probes of a port of host H is H's address
\* or one of H's own hostnames.
C28_OwnHostname ==
    \A k \in 1..Len(probes) :
        \/ probes[k].hostname = probes[k].host
        \/ \E n \in 1..Len(probes[k].own_hostnames) :
              probes[k].hostname = probes[k].own_hostnames[n]

(***************************************************************************)
(* Helper functions                                                        *)
(***************************************************************************)
Called(fn) == call_pc = "returned" /\ ret.fn = fn

\* the scanner's own confidence of the service of the call
ScannerConfidence ==
    IF call.nmap_service.conf = EmptyStr THEN 0 ELSE StrToInt(call.nmap_service.conf)

\* C22: the fingerprint_confidence of an observation built by
\* extract_service_info is the scanner's confidence (0-10) times 10, a value
\* in 0..100 on the scale of the threshold of the generic fallback rule.
C22_ConfidenceScaled ==
    Called("extract_service_info") =>
        /\ ret.value.fingerprint_confidence = 10 * ScannerConfidence
        /\ ret.value.fingerprint_confidence \in 0..100

\* the score of a candidate in tenths, 0 without a score
ScoreOf(c) == IF c.has_cvss THEN c.cvss10 ELSE 0

Kept(c) == \E i \in 1..Len(ret.value) : ret.value[i] = c

\* the original reading of C23: an older candidate is rejected unless its
\* score meets the minimum, in which case it is kept
C23_OldKeptOnScore ==
    Called("filter_by_age_and_score") =>
        \A i \in 1..Len(call.cve_results) :
            LET c == call.cve_results[i]
            IN /\ (YearOf(c.id) # 0 /\ YearOf(c.id) < MinYear /\ ScoreOf(c) >= MinScore10)
                     => Kept(c)
               /\ (YearOf(c.id) # 0 /\ YearOf(c.id) < MinYear /\ ScoreOf(c) < MinScore10)
                     => ~Kept(c)
               /\ (YearOf(c.id) = 0 /\ ~c.has_cvss) => ~Kept(c)

\* C23: filter_by_age_and_score rejects every candidate older than the year
\* threshold, whatever its score, and every candidate without a
\* determinable year; a candidate of the threshold year or later is kept
\* when its score meets the minimum, or when it is of the recent year or
\* later and has no score.
C23_OldRejected ==
    Called("filter_by_age_and_score") =>
        \A i \in 1..Len(call.cve_results) :
            LET c == call.cve_results[i]
            IN /\ YearOf(c.id) < MinYear => ~Kept(c)
               /\ (YearOf(c.id) >= MinYear /\ ScoreOf(c) >= MinScore10) => Kept(c)
               /\ (YearOf(c.id) >= RecentYear /\ ScoreOf(c) = 0) => Kept(c)
               /\ (YearOf(c.id) >= MinYear /\ YearOf(c.id) < RecentYear
                     /\ ScoreOf(c) < MinScore10) => ~Kept(c)

\* a candidate of 2017 with score 9.8 was filtered out
C23_Witness ==
    /\ Called("filter_by_age_and_score")
    /\ \E i \in 1..Len(call.cve_results) :
          /\ call.cve_results[i].id = <<"C","V","E","-","2","0","1","7","-","0","1","4","4">>
          /\ call.cve_results[i].cvss10 = 98
          /\ ~Kept(call.cve_results[i])

\* the vocabulary of each OS family
OsVocabulary ==
    [windows |-> << <<"w","i","n","d","o","w","s">>, <<"s","m","b">>, <<"r","d","p">>, <<"r","p","c">>, <<"e","d","g","e">>, <<"i","n","t","e","r","n","e","t"," ","e","x","p","l","o","r","e","r">>,
                    <<"m","i","c","r","o","s","o","f","t">>, <<"a","c","t","i","v","e"," ","d","i","r","e","c","t","o","r","y">>, <<"i","i","s">>, <<"n","e","t","b","i","o","s">> >>,
     linux |-> << <<"l","i","n","u","x">>, <<"k","e","r","n","e","l">>, <<"u","b","u","n","t","u">>, <<"d","e","b","i","a","n">>, <<"s","s","h">>, <<"a","p","a","c","h","e">>,
                  <<"n","g","i","n","x">>, <<"r","e","d"," ","h","a","t">>, <<"c","e","n","t","o","s">>, <<"f","e","d","o","r","a">>, <<"s","u","s","e">> >>,
     mac |-> << <<"m","a","c","o","s">>, <<"m","a","c"," ","o","s">>, <<"a","p","p","l","e">>, <<"s","a","f","a","r","i">>, <<"d","a","r","w","i","n">>, <<"m","a","c">> >>]

\* the OS family of the host, "none" when it is none of the three
FamilyOf(os_name) ==
    IF Contains(Lower(os_name), <<"w","i","n","d","o","w","s">>) THEN "windows"
    ELSE IF Contains(Lower(os_name), <<"l","i","n","u","x">>) THEN "linux"
    ELSE IF Contains(Lower(os_name), <<"m","a","c">>) THEN "mac"
    ELSE "none"

Mentions(c, family) == AnyIn(OsVocabulary[family], title_desc_of(c))

\* C24: for a host of a known OS family filter_cves_by_os rejects every
\* candidate whose text is specific to another family and keeps every
\* candidate without OS vocabulary; for an unknown or empty OS the list is
\* returned unchanged.
C24_OtherOsRejected ==
    Called("filter_cves_by_os") =>
        /\ (call.os_name = EmptyStr \/ Lower(call.os_name) = Unknown)
              => ret.value = call.cve_results
        /\ FamilyOf(call.os_name) # "none" =>
              \A i \in 1..Len(call.cve_results) :
                  LET c == call.cve_results[i]
                  IN /\ (~Mentions(c, FamilyOf(call.os_name))
                           /\ \E f \in DOMAIN OsVocabulary : Mentions(c, f)) => ~Kept(c)
                     /\ (\A f \in DOMAIN OsVocabulary : ~Mentions(c, f)
                           /\ ~AnyIn(<< <<"r","o","u","t","e","r">>, <<"f","i","r","m","w","a","r","e">> >>, title_desc_of(c)))
                           => Kept(c)

DetectedVendor == detect_vendor(fetch_args.service_name, fetch_args.version)

InResult(c) == \E i \in 1..Len(fetch_result.value) : fetch_result.value[i] = c

\* C25: in legacy mode, when a router vendor is detected for the service, a
\* candidate naming that vendor is not removed by the keyword blacklist: if
\* the age/score gate and the OS gate let it pass, it is in the result.
C25_OwnVendorNotBlacklisted ==
    (Fetched /\ nvd_answer = "ok" /\ ~ObservationSupplied /\ DetectedVendor # Generic) =>
        \A i \in 1..Len(raw_cves) :
            ( /\ Contains(title_desc_of(raw_cves[i]), Lower(DetectedVendor))
              /\ filter_by_age_and_score(<<raw_cves[i]>>) # <<>>
              /\ filter_cves_by_os(fetch_args.os_name, <<raw_cves[i]>>) # <<>> )
                => InResult(raw_cves[i])

\* C30: the ids upserted during one fetch are ids of the returned list, in
\* its order, and none when the list is empty or the fetch failed; failed
\* upserts leave the returned list as it was handed to the store and the
\* other CVEs are still saved.
C30_OnlyResultsSaved ==
    Fetched =>
        /\ nvd_answer = "ok" =>
              /\ ~fetch_result.raised
              /\ \A k \in 1..Len(fetch_result.value) : ~IsErrorRecord(fetch_result.value[k])
              /\ supabase =>
                    /\ Len(upserts) = Len(fetch_result.value)
                    /\ \A k \in 1..Len(upserts) : upserts[k].id = fetch_result.value[k].id
        /\ (nvd_answer # "ok" \/ fetch_result.value = <<>>) => upserts = <<>>
        /\ \A k \in 1..Len(upserts) : upserts[k].id \in IdsOf(fetch_result.value)
        /\ store = StoredIds(upserts)

\* two CVEs were returned; the upsert of the first failed, the second is in
\* the store
C30_Witness ==
    /\ Fetched
    /\ supabase
    /\ Len(raw_cves) = 2
    /\ Len(fetch_result.value) = 2
    /\ upserts[1].outcome # "ok"
    /\ upserts[2].outcome = "ok"
    /\ store = {fetch_result.value[2].id}
    /\ fetch_result.value[1].id # fetch_result.value[2].id

\* the version literals of the candidate's text, none of which is in the
\* observed version
VersionMismatch ==
    /\ cve_versions(title_desc_of(cve)) # <<>>
    /\ service_info.version # EmptyStr
    /\ ~VersionLiteralMatch(title_desc_of(cve), Lower(service_info.version))

\* C27: a candidate whose version literals are all absent from the observed,
\* non-empty version is rejected, even when the product it names is in the
\* banner (a CVE for miniupnpd 1.9 against a service reporting miniupnpd 2.0).
C27_VersionMismatchRejected ==
    ( /\ Matched
      /\ VersionMismatch
      /\ cve_product_of(title_desc_of(cve)) # EmptyStr
      /\ Contains(Lower(service_info.banner), cve_product_of(title_desc_of(cve))) )
        => ~decision.result

\* a step that is a call of strict_match_cve_to_evidence
MatchCallStep == match_pc' # match_pc

====
